---- MODULE Spec2Model ----
(***************************************************************************)
(* A model of the blender-render coordinator (src/main_server.py), its     *)
(* render worker (src/client/main.py) and the range algebra both GUIs      *)
(* share (src/blender_render_gui.py, src/main.py).                         *)
(*                                                                         *)
(* The specifications of this module share its variables; each one moves   *)
(* its own and holds the others at their idle values:                      *)
(*   SpecRanges      contiguous_ranges and split_ranges_by_chunk applied   *)
(*                   to drawn inputs;                                      *)
(*   SpecSplit       split_ranges_by_chunk run as a generator, one loop    *)
(*                   test at a time, for any integer chunk size;           *)
(*   SpecPlan        the plan computation of start_render (missing         *)
(*                   frames, chunk size, chunks) on drawn inputs;          *)
(*   Spec            the coordinator: file list, discovery roster and the  *)
(*                   start_render / stop_render handlers;                  *)
(*   SpecWorker      one LocalChunksWorker thread driving the renderer,    *)
(*                   beside stop_render;                                   *)
(*   SpecProgress    grid_cb and progress_cb, the session counters;        *)
(*   SpecDeps        the dependency scan and its handling in start_render; *)
(*   SpecUpload      the coordinator together with a worker's job server   *)
(*                   and the coordinator's upload server;                  *)
(*   SpecCancel      stop_render beside workers' jobs and the upload       *)
(*                   server;                                               *)
(*   SpecUploadWire  send_frame's bytes read by the upload server, every   *)
(*                   recv returning any part of what has arrived;          *)
(*   SpecJobWire     send_job's bytes read by the worker's job server in   *)
(*                   the same way;                                         *)
(*   SpecUploadCut   the upload server reading a stream that ends at any   *)
(*                   byte;                                                 *)
(*   SpecJobCut      the job server reading a stream that ends at any      *)
(*                   byte or a header that is not JSON, up to the launch   *)
(*                   of the renderer;                                      *)
(*   SpecDiscovery   a worker's discovery reply parsed by discover_once;   *)
(*   SpecDispatch    the dispatch part of start_render, session after      *)
(*                   session;                                              *)
(*   SpecServe       the job server from accept to accept: staging, the    *)
(*                   renderer's Saved: lines, its exit, the safety sweep;  *)
(*   SpecListen      the job server and the upload server, each against    *)
(*                   every kind of peer;                                   *)
(*   SpecWorkerLive  SpecWorker with weak fairness on the thread's steps;  *)
(*   SpecRestart     the LocalChunksWorker beside stop_render and the      *)
(*                   local-run block of start_render;                      *)
(*   SpecDiscoveryLoop  the discovery thread, cycle after cycle, with      *)
(*                   datagrams of any content;                             *)
(*   SpecRoster      start_render's reading of the roster beside           *)
(*                   discover_once and the checkboxes;                     *)
(*   SpecPaths       the paths the two listeners open for writing, for any *)
(*                   names in the header;                                  *)
(*   SpecGui         the standalone GUI: the Tk handlers beside a          *)
(*                   RenderWorker thread with its renderer.                *)
(***************************************************************************)
EXTENDS Integers, Sequences, FiniteSets, Bags, TLC

\* ---------------------------------------------------------------- bounds
MaxFrame == 2
MaxVal == 5
MaxChunk == 2
MaxFiles == 2
MaxBacklog == 1
MaxJobs == 1
MaxBody == 2
MaxDeps == 2
MaxGrids == 2
MaxYield == 3
MaxHost == 2
MaxSent == 2
MaxServed == 2
MaxPending == 1
MaxUploads == 1
MaxPath == 2
MaxStarts == 2

\* int(chunk_size.value.strip() or "100"), and the except branch: cs = 100
DefaultChunk == 100
LenWidth == 4
SizeWidth == 8
RecvCap == 4096
NameDigits == 4

Frames == 1..MaxFrame
Scenes == {"a", "b"}
Ips == {"w1"}
None == "none"
Renders == "RENDERS"
Dirs == Scenes \cup {Renders}

VARIABLES
    \* --- SpecRanges
    ra_pc, ra_xs, ra_n, ra_ranges, ra_chunks,
    \* --- SpecPlan: the inputs of one plan computation and its results
    pl_pc, pl_first, pl_last, pl_existing, pl_v, pl_missing, pl_chunks,
    \* --- coordinator (main_server.main)
    file_list,            \* file_list.controls: the scenes, in list order
    clients,              \* the roster `clients`, in insertion (dict) order
    out_dir,              \* frame numbers present in out_root/<stem>, per scene
    current_blend_file,   \* current_blend_file[0]
    stop_flag,            \* stop_flag (threading.Event)
    threads,              \* the LocalChunksWorker threads: the running ones and
                          \* the one local_worker[0] refers to
    local_worker,         \* local_worker[0]: index into threads, 0 for None
    sent_jobs,            \* send_job threads started by start_render
    call,                 \* the locals of the latest start_render call at its exit
    \* --- a worker (client/main.py) and the coordinator's upload server
    wk_job,               \* the job server thread: its position and the job's header
    wk_count,             \* jobs the job server has accepted so far
    up_queue,             \* connections to UPLOAD_PORT not yet accepted, oldest first
    up_last,              \* the latest file written by the upload server, and
                          \* stop_flag as it was then
    \* --- one upload connection, byte by byte (send_frame -> upload server)
    wi_sent,              \* the image file send_frame was called with
    wi_stream,            \* the bytes send_frame wrote to the socket, in order
    wi_pos,               \* how many of them the server has received
    wi_pc,                \* the server's position in its handler
    wi_hlen,              \* hlen
    wi_hdr,               \* header, once parsed
    wi_rem,               \* remaining
    wi_file,              \* the file at out_path
    \* --- one job connection, byte by byte (send_job -> job server)
    jw_job,               \* the scene and the dependency files send_job was given
    jw_stream,            \* the bytes send_job wrote to the socket, in order
    jw_pos,               \* how many of them the job server has received
    jw_pc,                \* the job server's position in its handler
    jw_buf,               \* buf of the recv_exact call in progress
    jw_hlen,              \* hlen
    jw_hdr,               \* header, once parsed
    jw_idx,               \* the file being received: 0 the scene, i the i-th dependency
    jw_rem,               \* remaining
    jw_staged,            \* the files under jobs/<job_id>: path -> contents
    \* --- split_ranges_by_chunk run as a generator
    sg_ranges, sg_n,      \* its arguments
    sg_pc,                \* "off", "for" (taking the next range), "while", "returned"
    sg_i,                 \* the ranges the for loop has taken
    sg_cur,
    sg_out,               \* the chunks yielded so far
    \* --- the dependency scan of start_render
    dp_scene,             \* blend_file
    dp_code, dp_out,      \* what run_capture returned: exit code and output
    dp_pc,                \* "off", "run", "scan", "handle", "header", "done"
    dp_result,            \* get_blend_dependencies: the list returned, or raised
    dp_pairs,             \* dep_pairs
    dp_log,               \* the "[ERROR] Dependency scan: ..." lines logged
    dp_deps,              \* header["dependencies"]
    \* --- discovery: a worker's reply and discover_once
    dc_msg,               \* the reply datagram on its way, with its sender
    dc_clients,           \* the module-level dict clients: ip -> hostname, port
    dc_last,              \* what the worker of the reply parsed last declared
    dc_keys,              \* the keys of clients in insertion order
    \* --- start_render's reading of clients, and the discovery thread
    rs_pc,                \* the comprehension over clients.items(): "off", "idle",
                          \* "iter", "done", "raised"
    rs_iter,              \* its iterator: the dict's size when made, the keys taken
    rs_snap,              \* active_clients as built so far
    rs_seen,              \* the sets of selected workers the roster has held since
                          \* the comprehension began
    dl_pc,                \* discovery_loop: "off", "send", "recv", "sleep", "dead"
    dl_log,               \* what the discovery thread has logged
    \* --- the standalone GUI (blender_render_gui)
    gu_worker,            \* the RenderWorker threads started and not yet replaced;
                          \* App.worker is the last
    gu_stop,              \* App.stop_flag, the Event every RenderWorker shares
    gu_tk,                \* the Tk thread: "off", "idle", or inside stop_immediately
    gu_procs,             \* the renderer subprocesses started and not yet dead
    gu_app,               \* _finish_handled, _shutdown_scheduled, shutdown_var, closed
    gu_hist,              \* Start presses, the flag's setting during the present
                          \* run, the shutdown countdowns begun
    \* --- a path received from a peer and the file it names
    pt_pc,                \* "off", "header" (the names are read), "done"
    pt_in,                \* which listener, and the names of the header it read
    pt_out,               \* the directory meant for the files, and the files written
    \* --- the worker's job server, one connection after another
    js_pc,                \* server(): "off", "accept", "stage", "stream", "sweep"
    js_conn,              \* conn: "none", "open", "closed"
    js_proc,              \* the renderer subprocesses launched and not yet exited
    js_log,               \* what log_fn was called with
    js_job,               \* the job of the connection being served
    js_dirs,              \* jobs/<job_id>/frames on the worker's disk: the file names
    js_wait,              \* connections made to JOB_PORT and not accepted yet
    js_sent,              \* the send_frame calls of the job being served
    \* --- the coordinator's upload server, one connection after another
    us_pc,                \* server(): "off", "accept", "handle", "dead"
    us_conn,              \* conn and what its peer does
    us_log,               \* what log_cb was called with
    \* --- progress accounting (grid_cb, progress_cb)
    scene_start,          \* the list scene_start without its None: <<>> or <<start>>
    missing_set_current,
    rendered_now,
    total_to_render,      \* total_to_render[0]
    pg_grids,             \* the bag of grid_cb calls run_thread has started, each
                          \* with its arguments and its position
    pg_last               \* the latest progress_cb call and its argument

ra_vars == <<ra_pc, ra_xs, ra_n, ra_ranges, ra_chunks>>
pl_vars == <<pl_pc, pl_first, pl_last, pl_existing, pl_v, pl_missing, pl_chunks>>
co_vars == <<file_list, clients, out_dir, current_blend_file, stop_flag,
             threads, local_worker, sent_jobs, call>>
up_vars == <<wk_job, wk_count, up_queue, up_last>>
wi_vars == <<wi_sent, wi_stream, wi_pos, wi_pc, wi_hlen, wi_hdr, wi_rem, wi_file>>
jw_vars == <<jw_job, jw_stream, jw_pos, jw_pc, jw_buf, jw_hlen, jw_hdr, jw_idx, jw_rem, jw_staged>>
pg_vars == <<scene_start, missing_set_current, rendered_now, total_to_render, pg_grids, pg_last>>
sg_vars == <<sg_ranges, sg_n, sg_pc, sg_i, sg_cur, sg_out>>
dp_vars == <<dp_scene, dp_code, dp_out, dp_pc, dp_result, dp_pairs, dp_log, dp_deps>>
dc_vars == <<dc_msg, dc_clients, dc_last, dc_keys>>
rs_vars == <<rs_pc, rs_iter, rs_snap, rs_seen, dl_pc, dl_log>>
gu_vars == <<gu_worker, gu_stop, gu_tk, gu_procs, gu_app, gu_hist>>
pt_vars == <<pt_pc, pt_in, pt_out>>
us_vars == <<us_pc, us_conn, us_log>>
js_vars == <<js_pc, js_conn, js_proc, js_log, js_job, js_dirs, js_wait, js_sent, us_vars>>
fn_vars == <<wi_vars, jw_vars, pg_vars, sg_vars, dp_vars, dc_vars, rs_vars, gu_vars, pt_vars, js_vars>>
sg_others == <<ra_vars, pl_vars, co_vars, up_vars, wi_vars, jw_vars, pg_vars, dp_vars, dc_vars, rs_vars, gu_vars, pt_vars, js_vars>>
dp_others == <<ra_vars, pl_vars, co_vars, up_vars, wi_vars, jw_vars, pg_vars, sg_vars, dc_vars, rs_vars, gu_vars, pt_vars, js_vars>>
dc_others == <<ra_vars, pl_vars, co_vars, up_vars, wi_vars, jw_vars, pg_vars, sg_vars, dp_vars, js_vars,
               rs_vars, gu_vars, pt_vars>>
rs_others == <<ra_vars, pl_vars, co_vars, up_vars, wi_vars, jw_vars, pg_vars, sg_vars, dp_vars, js_vars,
               gu_vars, pt_vars>>
gu_others == <<ra_vars, pl_vars, co_vars, up_vars, wi_vars, jw_vars, pg_vars, sg_vars, dp_vars, js_vars,
               dc_vars, rs_vars, pt_vars>>
pt_others == <<ra_vars, pl_vars, co_vars, up_vars, wi_vars, jw_vars, pg_vars, sg_vars, dp_vars, js_vars,
               dc_vars, rs_vars, gu_vars>>
js_others == <<ra_vars, pl_vars, co_vars, up_vars, wi_vars, jw_vars, pg_vars, sg_vars, dp_vars, dc_vars, rs_vars, gu_vars, pt_vars>>
pure_vars == <<ra_vars, pl_vars, fn_vars>>
vars == <<ra_vars, pl_vars, co_vars, up_vars, fn_vars>>

\* ------------------------------------------------------------ small helpers
Min(a, b) == IF a <= b THEN a ELSE b
Max(a, b) == IF a >= b THEN a ELSE b
RangeSet(r) == r[1]..r[2]
RECURSIVE UnionOfRanges(_)
UnionOfRanges(rs) ==
    IF rs = <<>> THEN {} ELSE RangeSet(Head(rs)) \cup UnionOfRanges(Tail(rs))
SeqSet(s) == {s[i] : i \in 1..Len(s)}

\* range(lo, hi + 1) filtered by a predicate set: [f for f in range(..) if f \in keep]
RECURSIVE AscendingSeq(_, _, _)
AscendingSeq(lo, hi, keep) ==
    IF lo > hi THEN <<>>
    ELSE (IF lo \in keep THEN <<lo>> ELSE <<>>) \o AscendingSeq(lo + 1, hi, keep)

\* sorted(xs): insertion of each element into an ascending result
RECURSIVE InsertSorted(_, _)
InsertSorted(x, s) ==
    IF s = <<>> THEN <<x>>
    ELSE IF x < Head(s) THEN <<x>> \o s
    ELSE <<Head(s)>> \o InsertSorted(x, Tail(s))
RECURSIVE sorted(_)
sorted(xs) == IF xs = <<>> THEN <<>> ELSE InsertSorted(Head(xs), sorted(Tail(xs)))

\* ------------------------------------------------------------ range algebra
\* contiguous_ranges without the `yield (start, prev)` that follows the loop
RECURSIVE ContiguousLoopNoTail(_, _, _, _)
ContiguousLoopNoTail(xs, i, start, prev) ==
    IF i > Len(xs) THEN <<>>
    ELSE IF xs[i] = prev + 1 THEN ContiguousLoopNoTail(xs, i + 1, start, xs[i])
    ELSE << <<start, prev>> >> \o ContiguousLoopNoTail(xs, i + 1, xs[i], xs[i])

\* the for loop of contiguous_ranges from element i on, with locals start, prev
RECURSIVE ContiguousLoop(_, _, _, _)
ContiguousLoop(xs, i, start, prev) ==
    IF i > Len(xs) THEN << <<start, prev>> >>
    ELSE IF xs[i] = prev + 1 THEN ContiguousLoop(xs, i + 1, start, xs[i])
    ELSE << <<start, prev>> >> \o ContiguousLoop(xs, i + 1, xs[i], xs[i])

contiguous_ranges(sorted_frames) ==
    IF sorted_frames = <<>> THEN <<>>
    ELSE ContiguousLoop(sorted_frames, 2, sorted_frames[1], sorted_frames[1])

\* split_ranges_by_chunk yielding (cur, min(cur + chunk_size, b)): the - 1 left out
RECURSIVE SplitOneWide(_, _, _)
SplitOneWide(cur, b, chunk_size) ==
    IF cur <= b
    THEN << <<cur, Min(cur + chunk_size, b)>> >> \o SplitOneWide(cur + chunk_size, b, chunk_size)
    ELSE <<>>

\* the while loop of split_ranges_by_chunk for one range (a, b), from cur on
RECURSIVE SplitOne(_, _, _)
SplitOne(cur, b, chunk_size) ==
    IF cur <= b
    THEN << <<cur, Min(cur + chunk_size - 1, b)>> >> \o SplitOne(cur + chunk_size, b, chunk_size)
    ELSE <<>>

RECURSIVE split_ranges_by_chunk(_, _)
split_ranges_by_chunk(ranges, chunk_size) ==
    IF ranges = <<>> THEN <<>>
    ELSE SplitOne(Head(ranges)[1], Head(ranges)[2], chunk_size)
         \o split_ranges_by_chunk(Tail(ranges), chunk_size)

\* ------------------------------------------- split_ranges_by_chunk, stepwise
\* The generator taken one loop test at a time, for any integer chunk_size.
\* A caller that has drawn MaxYield chunks draws no more.
SgIdle ==
    /\ sg_pc = "off"
    /\ sg_ranges = <<>>
    /\ sg_n = 1
    /\ sg_i = 0
    /\ sg_cur = 0
    /\ sg_out = <<>>

SgInput ==
    /\ sg_pc = "for"
    /\ sg_ranges \in {contiguous_ranges(AscendingSeq(0, MaxVal, S)) : S \in SUBSET (0..MaxVal)}
    /\ sg_n \in (-MaxChunk)..MaxChunk
    /\ sg_i = 0
    /\ sg_cur = 0
    /\ sg_out = <<>>

\* for a, b in ranges: cur = a
SgFor ==
    /\ sg_pc = "for"
    /\ sg_i < Len(sg_ranges)
    /\ sg_i' = sg_i + 1
    /\ sg_cur' = sg_ranges[sg_i + 1][1]
    /\ sg_pc' = "while"
    /\ UNCHANGED <<sg_ranges, sg_n, sg_out, sg_others>>

\* while cur <= b: yield (cur, min(cur + chunk_size - 1, b)); cur += chunk_size
SgYield ==
    /\ sg_pc = "while"
    /\ sg_cur <= sg_ranges[sg_i][2]
    /\ Len(sg_out) < MaxYield
    /\ sg_out' = Append(sg_out, <<sg_cur, Min(sg_cur + sg_n - 1, sg_ranges[sg_i][2])>>)
    /\ sg_cur' = sg_cur + sg_n
    /\ UNCHANGED <<sg_ranges, sg_n, sg_i, sg_pc, sg_others>>

\* while cur <= b: false
SgEndWhile ==
    /\ sg_pc = "while"
    /\ sg_cur > sg_ranges[sg_i][2]
    /\ sg_pc' = "for"
    /\ UNCHANGED <<sg_ranges, sg_n, sg_i, sg_cur, sg_out, sg_others>>

\* the for loop is exhausted: the generator returns
SgReturn ==
    /\ sg_pc = "for"
    /\ sg_i = Len(sg_ranges)
    /\ sg_pc' = "returned"
    /\ UNCHANGED <<sg_ranges, sg_n, sg_i, sg_cur, sg_out, sg_others>>

\* ------------------------------------------------------------ SpecRanges
Values == 0..MaxVal
RaInput ==
    /\ ra_pc = "input"
    /\ ra_xs \in {AscendingSeq(0, MaxVal, S) : S \in SUBSET Values}
    /\ ra_n \in 1..MaxChunk
    /\ ra_ranges = <<>>
    /\ ra_chunks = <<>>

RaContiguous ==
    /\ ra_pc = "input"
    /\ ra_ranges' = contiguous_ranges(ra_xs)
    /\ ra_pc' = "ranges"
    /\ UNCHANGED <<ra_xs, ra_n, ra_chunks, pl_vars, co_vars, up_vars, fn_vars>>

RaSplit ==
    /\ ra_pc = "ranges"
    /\ ra_chunks' = split_ranges_by_chunk(ra_ranges, ra_n)
    /\ ra_pc' = "chunks"
    /\ UNCHANGED <<ra_xs, ra_n, ra_ranges, pl_vars, co_vars, up_vars, fn_vars>>

\* chunk_size.value left empty
NoChunkInput == [kind |-> "empty", val |-> 0]

\* the locals of start_render before any call was made; v is chunk_size.value
\* where the call reads it
NoCall ==
    [outcome |-> "none", scene |-> None, s_start |-> 0, s_end |-> 0,
     existing |-> {}, missing |-> <<>>, v |-> NoChunkInput, cs |-> 0, chunks |-> <<>>,
     active |-> <<>>, assignments |-> [w \in {"local"} |-> <<>>], alive |-> FALSE,
     started |-> FALSE, jobs |-> <<>>,
     listed |-> 0,        \* len(file_list.controls) at the call
     probed |-> 0,        \* the scenes get_blend_frame_range was called for
     cleared |-> FALSE,   \* stop_flag.clear() met a set flag and a live worker
     launched |-> 0]      \* chunks that worker had launched by then

\* main(): worker state, session state, the module-level roster
CoStart ==
    /\ file_list = <<>>
    /\ clients = <<>>
    /\ current_blend_file = None
    /\ stop_flag = FALSE
    /\ threads = <<>>
    /\ local_worker = 0
    /\ sent_jobs = <<>>
    /\ call = NoCall

CoIdle == CoStart /\ out_dir = [d \in Dirs |-> {}]

RaIdle ==
    /\ ra_pc = "off"
    /\ ra_xs = <<>>
    /\ ra_n = 1
    /\ ra_ranges = <<>>
    /\ ra_chunks = <<>>

RaNext == RaContiguous \/ RaSplit


\* ------------------------------------------------- one upload on the wire
\* A byte is a number in 0..255 and a stream is a sequence of bytes.
RECURSIVE Pow(_, _)
Pow(b, e) == IF e = 0 THEN 1 ELSE b * Pow(b, e - 1)
\* struct.pack("!I", n) / struct.pack("!Q", n): w bytes, big-endian
RECURSIVE pack(_, _)
pack(n, w) == IF w = 0 THEN <<>> ELSE pack(n \div 256, w - 1) \o <<n % 256>>
\* struct.unpack on a buffer: defined for exactly w bytes, struct.error otherwise
RECURSIVE UnpackFrom(_, _, _)
UnpackFrom(bs, i, acc) == IF i > Len(bs) THEN acc ELSE UnpackFrom(bs, i + 1, acc * 256 + bs[i])
unpack(bs) == UnpackFrom(bs, 1, 0)
\* the renderer's -o ####: the frame number in NameDigits decimal digits
DigitsOf(n, w) == [i \in 1..w |-> (n \div Pow(10, w - i)) % 10]
\* int(m.group(1)) on the digits that end the stem
RECURSIVE IntFrom(_, _, _)
IntFrom(ds, i, acc) == IF i > Len(ds) THEN acc ELSE IntFrom(ds, i + 1, acc * 10 + ds[i])
IntOf(ds) == IntFrom(ds, 1, 0)
\* json.dumps(header).encode() for header = {"frame", "filename"}: an opening
\* brace, the frame number, the digits of the filename, a closing brace
LBrace == 123
RBrace == 125
json_dumps(header) == <<LBrace, header.frame>> \o header.filename \o <<RBrace>>
\* json.loads succeeds on the complete text only
json_ok(bs) == Len(bs) = NameDigits + 3 /\ bs[1] = LBrace /\ bs[Len(bs)] = RBrace
json_loads(bs) == [frame |-> bs[2], filename |-> SubSeq(bs, 3, Len(bs) - 1)]

Bytes == {0, 1}
Bodies == UNION {[1..n -> Bytes] : n \in 0..MaxBody}
NoFile == [name |-> <<>>, data |-> <<>>, exists |-> FALSE]
NoHeader == [frame |-> 0, filename |-> <<>>]

\* send_frame(upload_host, upload_port, img_path, log_fn): the bytes sent
SendFrameStream(img) ==
    LET header == [frame |-> IntOf(img.name), filename |-> img.name]
        hdr == json_dumps(header)
    IN pack(Len(hdr), LenWidth) \o hdr \o pack(Len(img.data), SizeWidth) \o img.data

WiIdle ==
    /\ wi_sent = NoFile /\ wi_stream = <<>> /\ wi_pos = 0 /\ wi_pc = "off"
    /\ wi_hlen = 0 /\ wi_hdr = NoHeader /\ wi_rem = 0 /\ wi_file = NoFile
WiInput ==
    /\ \E f \in Frames, data \in Bodies :
          /\ wi_sent = [name |-> DigitsOf(f, NameDigits), data |-> data, exists |-> TRUE]
          /\ wi_stream = SendFrameStream(wi_sent)
    /\ wi_pos = 0 /\ wi_pc = "len"
    /\ wi_hlen = 0 /\ wi_hdr = NoHeader /\ wi_rem = 0 /\ wi_file = NoFile

\* the sender's connection ends at any point of its stream (send_frame's
\* sendall raises, the worker is stopped, the network drops)
Prefixes(stream) == {SubSeq(stream, 1, n) : n \in 0..Len(stream)}
WiCutInput ==
    /\ \E f \in Frames, data \in Bodies :
          /\ wi_sent = [name |-> DigitsOf(f, NameDigits), data |-> data, exists |-> TRUE]
          /\ wi_stream \in Prefixes(SendFrameStream(wi_sent))
    /\ wi_pos = 0 /\ wi_pc = "len"
    /\ wi_hlen = 0 /\ wi_hdr = NoHeader /\ wi_rem = 0 /\ wi_file = NoFile

\* conn.recv(n) returns between 1 and n of the bytes not yet received, as TCP
\* delivers them, and b"" once the peer has closed and nothing is left
Avail == Len(wi_stream) - wi_pos
RecvSizes(n) == IF Avail = 0 \/ n = 0 THEN {0} ELSE 1..Min(n, Avail)
Recvd(k) == SubSeq(wi_stream, wi_pos + 1, wi_pos + k)

\* hlen_b = conn.recv(4); if not hlen_b: close; hlen = struct.unpack("!I", hlen_b)[0]
UpRecvLen(k) ==
    /\ wi_pc = "len"
    /\ k \in RecvSizes(LenWidth)
    /\ wi_pos' = wi_pos + k
    /\ IF k = 0 THEN wi_pc' = "closed" /\ UNCHANGED wi_hlen
       ELSE IF k # LenWidth THEN wi_pc' = "error" /\ UNCHANGED wi_hlen
       ELSE wi_pc' = "hdr" /\ wi_hlen' = unpack(Recvd(k))
    /\ UNCHANGED <<wi_sent, wi_stream, wi_hdr, wi_rem, wi_file, ra_vars, pl_vars, co_vars, up_vars, jw_vars, pg_vars, sg_vars, dp_vars, dc_vars, rs_vars, gu_vars, pt_vars, js_vars>>

\* header = json.loads(conn.recv(hlen).decode("utf-8")); frame_num; filename
UpRecvHeader(k) ==
    /\ wi_pc = "hdr"
    /\ k \in RecvSizes(wi_hlen)
    /\ wi_pos' = wi_pos + k
    /\ IF json_ok(Recvd(k))
       THEN wi_pc' = "size" /\ wi_hdr' = json_loads(Recvd(k))
       ELSE wi_pc' = "error" /\ UNCHANGED wi_hdr
    /\ UNCHANGED <<wi_sent, wi_stream, wi_hlen, wi_rem, wi_file, ra_vars, pl_vars, co_vars, up_vars, jw_vars, pg_vars, sg_vars, dp_vars, dc_vars, rs_vars, gu_vars, pt_vars, js_vars>>

\* size = struct.unpack("!Q", conn.recv(8))[0]; out_path = render_dir / filename;
\* open(out_path, "wb")
UpRecvSize(k) ==
    /\ wi_pc = "size"
    /\ k \in RecvSizes(SizeWidth)
    /\ wi_pos' = wi_pos + k
    /\ IF k # SizeWidth THEN wi_pc' = "error" /\ UNCHANGED <<wi_rem, wi_file>>
       ELSE /\ wi_pc' = "body"
            /\ wi_rem' = unpack(Recvd(k))
            /\ wi_file' = [name |-> wi_hdr.filename, data |-> <<>>, exists |-> TRUE]
    /\ UNCHANGED <<wi_sent, wi_stream, wi_hlen, wi_hdr, ra_vars, pl_vars, co_vars, up_vars, jw_vars, pg_vars, sg_vars, dp_vars, dc_vars, rs_vars, gu_vars, pt_vars, js_vars>>

\* while remaining > 0: chunk = conn.recv(min(4096, remaining)); if not chunk:
\* break; f.write(chunk); remaining -= len(chunk).  Then the log and progress_cb.
UpRecvBody(k) ==
    /\ wi_pc = "body"
    /\ IF wi_rem = 0 THEN k = 0 /\ wi_pc' = "done" /\ UNCHANGED <<wi_pos, wi_rem, wi_file>>
       ELSE /\ k \in RecvSizes(Min(RecvCap, wi_rem))
            /\ wi_pos' = wi_pos + k
            /\ IF k = 0 THEN wi_pc' = "done" /\ UNCHANGED <<wi_rem, wi_file>>
               ELSE /\ wi_file' = [wi_file EXCEPT !.data = @ \o Recvd(k)]
                    /\ wi_rem' = wi_rem - k
                    /\ UNCHANGED wi_pc
    /\ UNCHANGED <<wi_sent, wi_stream, wi_hlen, wi_hdr, ra_vars, pl_vars, co_vars, up_vars, jw_vars, pg_vars, sg_vars, dp_vars, dc_vars, rs_vars, gu_vars, pt_vars, js_vars>>

WireSizes == 0..Max(SizeWidth, NameDigits + 3)
UpWireNext ==
    \/ \E k \in WireSizes : UpRecvLen(k)
    \/ \E k \in WireSizes : UpRecvHeader(k)
    \/ \E k \in WireSizes : UpRecvSize(k)
    \/ \E k \in WireSizes : UpRecvBody(k)

\* ---------------------------------------------------- one job on the wire
\* get_blend_dependencies: an asset is the absolute path dir/base of a file the
\* scene refers to; the scene itself lies in SceneDir
SceneDir == 0
AssetDirs == {SceneDir, 1, 2}
AssetBases == {1}
Assets == {[dir |-> d, base |-> b] : d \in AssetDirs, b \in AssetBases}
\* an asset under the scene's directory keeps its relative path, any other is
\* renamed _external/<basename>.  Paths under job_dir are numbers: the relative
\* path of base b is b, _external/b is ExternalDir + b, the scene is SceneName.
ExternalDir == 100
SceneName == 10
remote_rel(ap) == IF ap.dir = SceneDir THEN ap.base ELSE ExternalDir + ap.base
\* sorted(deps): absolute paths in ascending order
AssetLess(x, y) == x.dir < y.dir \/ (x.dir = y.dir /\ x.base < y.base)
RECURSIVE SortedAssets(_)
SortedAssets(S) ==
    IF S = {} THEN <<>>
    ELSE LET m == CHOOSE x \in S : \A y \in S \ {x} : AssetLess(x, y)
         IN <<m>> \o SortedAssets(S \ {m})

\* json.dumps(header) for a job: the fields the job server reads from it are
\* "file" and "dependencies"
job_dumps(header) ==
    <<LBrace, header.file, Len(header.dependencies)>> \o header.dependencies \o <<RBrace>>
job_loads(bs) == [file |-> bs[2], dependencies |-> SubSeq(bs, 4, Len(bs) - 1)]
\* json.loads raises on a text that is not a complete object
job_ok(bs) == Len(bs) >= 4 /\ bs[1] = LBrace /\ bs[Len(bs)] = RBrace /\ bs[3] = Len(bs) - 4

\* send_job(ip, port, header, files, log_cb): the bytes sent
RECURSIVE SendFiles(_)
SendFiles(files) ==
    IF files = <<>> THEN <<>>
    ELSE pack(Len(Head(files).data), SizeWidth) \o Head(files).data \o SendFiles(Tail(files))
SendJobStream(header, files) ==
    LET hdr == job_dumps(header)
    IN pack(Len(hdr), LenWidth) \o hdr \o SendFiles(files)

\* start_render: dep_remote_list and files_to_send, the scene first
JobOf(scene_data, deps) ==
    [header |-> [file |-> SceneName,
                 dependencies |-> [i \in 1..Len(deps) |-> remote_rel(deps[i].path)]],
     files |-> <<[data |-> scene_data]>> \o [i \in 1..Len(deps) |-> [data |-> deps[i].data]]]

FileData == {<<0>>, <<1>>}
JwIdle ==
    /\ jw_job = [header |-> [file |-> 0, dependencies |-> <<>>], files |-> <<>>]
    /\ jw_stream = <<>> /\ jw_pos = 0 /\ jw_pc = "off" /\ jw_buf = <<>>
    /\ jw_hlen = 0 /\ jw_hdr = [file |-> 0, dependencies |-> <<>>]
    /\ jw_idx = 0 /\ jw_rem = 0 /\ jw_staged = <<>>
JwInput ==
    /\ \E S \in {T \in SUBSET Assets : Cardinality(T) <= MaxDeps} :
         \E contents \in [S -> FileData], scene_data \in FileData :
            LET aps == SortedAssets(S)
                deps == [i \in 1..Len(aps) |-> [path |-> aps[i], data |-> contents[aps[i]]]]
            IN jw_job = JobOf(scene_data, deps)
    /\ jw_stream = SendJobStream(jw_job.header, jw_job.files)
    /\ jw_pos = 0 /\ jw_pc = "len" /\ jw_buf = <<>>
    /\ jw_hlen = 0 /\ jw_hdr = [file |-> 0, dependencies |-> <<>>]
    /\ jw_idx = 0 /\ jw_rem = 0 /\ jw_staged = <<>>

JwAvail == Len(jw_stream) - jw_pos
JwRecvSizes(n) == IF JwAvail = 0 \/ n = 0 THEN {0} ELSE 1..Min(n, JwAvail)
JwRecvd(k) == SubSeq(jw_stream, jw_pos + 1, jw_pos + k)
\* the files under job_dir as a sequence of [path, data], one entry per path
Staged(path) == \E i \in 1..Len(jw_staged) : jw_staged[i].path = path
StagedData(path) == jw_staged[CHOOSE i \in 1..Len(jw_staged) : jw_staged[i].path = path].data
\* open(path, "wb"): the file is created, or truncated when it exists
OpenWb(fs, path) ==
    SelectSeq(fs, LAMBDA e : e.path # path) \o <<[path |-> path, data |-> <<>>]>>
\* f.write(chunk) on the file opened last
WriteLast(fs, bs) == [fs EXCEPT ![Len(fs)].data = @ \o bs]
\* job_dir / blend_name for the scene, job_dir / dep_rel for a dependency
StagePath(hdr, idx) == IF idx = 0 THEN hdr.file ELSE hdr.dependencies[idx]

\* a body loop that asks for 4096 bytes whatever remains of the file
BodyRecvNoMin(remaining) == RecvCap
\* conn.recv(min(4096, remaining))
BodyRecvLimit(remaining) == Min(RecvCap, remaining)

\* one conn.recv of recv_exact(conn, 4); with the 4 bytes, hlen
JwRecvLen(k) ==
    /\ jw_pc = "len"
    /\ k \in JwRecvSizes(LenWidth - Len(jw_buf))
    /\ jw_pos' = jw_pos + k
    /\ IF k = 0 THEN jw_pc' = "closed" /\ UNCHANGED <<jw_buf, jw_hlen>>
       ELSE IF Len(jw_buf) + k < LenWidth
       THEN jw_buf' = jw_buf \o JwRecvd(k) /\ UNCHANGED <<jw_pc, jw_hlen>>
       ELSE jw_pc' = "hdr" /\ jw_hlen' = unpack(jw_buf \o JwRecvd(k)) /\ jw_buf' = <<>>
    /\ UNCHANGED <<jw_job, jw_stream, jw_hdr, jw_idx, jw_rem, jw_staged,
                   wi_vars, pg_vars, sg_vars, dp_vars, dc_vars, rs_vars, gu_vars, pt_vars, js_vars, ra_vars, pl_vars, co_vars, up_vars>>

\* one conn.recv of recv_exact(conn, hlen); with all of it, json.loads and the
\* header fields, job_dir.mkdir
JwRecvHeader(k) ==
    /\ jw_pc = "hdr"
    /\ k \in JwRecvSizes(jw_hlen - Len(jw_buf))
    /\ jw_pos' = jw_pos + k
    /\ IF k = 0 THEN jw_pc' = "error" /\ UNCHANGED <<jw_buf, jw_hdr>>
       ELSE IF Len(jw_buf) + k < jw_hlen
       THEN jw_buf' = jw_buf \o JwRecvd(k) /\ UNCHANGED <<jw_pc, jw_hdr>>
       ELSE IF job_ok(jw_buf \o JwRecvd(k))
       THEN jw_pc' = "size" /\ jw_hdr' = job_loads(jw_buf \o JwRecvd(k)) /\ jw_buf' = <<>>
       ELSE jw_pc' = "error" /\ UNCHANGED <<jw_buf, jw_hdr>>
    /\ UNCHANGED <<jw_job, jw_stream, jw_hlen, jw_idx, jw_rem, jw_staged,
                   wi_vars, pg_vars, sg_vars, dp_vars, dc_vars, rs_vars, gu_vars, pt_vars, js_vars, ra_vars, pl_vars, co_vars, up_vars>>

\* one conn.recv of recv_exact(conn, 8); with the 8 bytes, size, the path of
\* the file and open(path, "wb")
JwRecvSize(k) ==
    /\ jw_pc = "size"
    /\ k \in JwRecvSizes(SizeWidth - Len(jw_buf))
    /\ jw_pos' = jw_pos + k
    /\ IF k = 0 THEN jw_pc' = "error" /\ UNCHANGED <<jw_buf, jw_rem, jw_staged>>
       ELSE IF Len(jw_buf) + k < SizeWidth
       THEN jw_buf' = jw_buf \o JwRecvd(k) /\ UNCHANGED <<jw_pc, jw_rem, jw_staged>>
       ELSE /\ jw_pc' = "body"
            /\ jw_rem' = unpack(jw_buf \o JwRecvd(k))
            /\ jw_buf' = <<>>
            /\ jw_staged' = OpenWb(jw_staged, StagePath(jw_hdr, jw_idx))
    /\ UNCHANGED <<jw_job, jw_stream, jw_hlen, jw_hdr, jw_idx,
                   wi_vars, pg_vars, sg_vars, dp_vars, dc_vars, rs_vars, gu_vars, pt_vars, js_vars, ra_vars, pl_vars, co_vars, up_vars>>

\* while remaining > 0: chunk = conn.recv(min(4096, remaining)); if not chunk:
\* break; f.write(chunk).  After the file: the next dependency, or conn.close()
\* and the render.
JwRecvBody(k) ==
    /\ jw_pc = "body"
    /\ IF jw_rem = 0
       THEN /\ k = 0
            /\ IF jw_idx < Len(jw_hdr.dependencies)
               THEN jw_pc' = "size" /\ jw_idx' = jw_idx + 1
               ELSE jw_pc' = "done" /\ UNCHANGED jw_idx
            /\ UNCHANGED <<jw_pos, jw_rem, jw_staged>>
       ELSE /\ k \in JwRecvSizes(BodyRecvLimit(jw_rem))
            /\ jw_pos' = jw_pos + k
            /\ IF k = 0 THEN jw_rem' = 0 /\ UNCHANGED jw_staged
               ELSE jw_rem' = jw_rem - k /\ jw_staged' = WriteLast(jw_staged, JwRecvd(k))
            /\ UNCHANGED <<jw_pc, jw_idx>>
    /\ UNCHANGED <<jw_job, jw_stream, jw_buf, jw_hlen, jw_hdr,
                   wi_vars, pg_vars, sg_vars, dp_vars, dc_vars, rs_vars, gu_vars, pt_vars, js_vars, ra_vars, pl_vars, co_vars, up_vars>>

JobWireSizes == 0..Max(SizeWidth, MaxDeps + 4)
JobWireNext ==
    \/ \E k \in JobWireSizes : JwRecvLen(k)
    \/ \E k \in JobWireSizes : JwRecvHeader(k)
    \/ \E k \in JobWireSizes : JwRecvSize(k)
    \/ \E k \in JobWireSizes : JwRecvBody(k)

\* the job server after the bytes of a connection.  The peer of the connection
\* is send_job, whose stream may end at any byte, or a peer whose header text
\* is not JSON.
NotJson(hdr) == [hdr EXCEPT ![Len(hdr)] = LBrace]
PeerStream(header, files, json) ==
    LET hdr == IF json THEN job_dumps(header) ELSE NotJson(job_dumps(header))
    IN pack(Len(hdr), LenWidth) \o hdr \o SendFiles(files)
JwCutInput ==
    /\ \E S \in {T \in SUBSET Assets : Cardinality(T) <= MaxDeps} :
         \E contents \in [S -> FileData], scene_data \in FileData, json \in BOOLEAN :
            LET aps == SortedAssets(S)
                deps == [i \in 1..Len(aps) |-> [path |-> aps[i], data |-> contents[aps[i]]]]
            IN /\ jw_job = JobOf(scene_data, deps)
               /\ jw_stream \in Prefixes(PeerStream(jw_job.header, jw_job.files, json))
    /\ jw_pos = 0 /\ jw_pc = "len" /\ jw_buf = <<>>
    /\ jw_hlen = 0 /\ jw_hdr = [file |-> 0, dependencies |-> <<>>]
    /\ jw_idx = 0 /\ jw_rem = 0 /\ jw_staged = <<>>

\* the exceptions the handlers of a connection raise, all of them subclasses
\* of Exception
Exceptions == {"AttributeError", "TypeError", "ValueError", "KeyError", "OSError", "struct.error"}
\* a handler that catches only socket and file errors
ExceptOSError(e) == e = "OSError"
\* except Exception as e
ExceptException(e) == e \in Exceptions

\* e is raised inside the try of the job server after the lines `logged`:
\* except Exception logs it, finally closes conn and the loop goes on to
\* accept; an exception the except clause does not name ends the thread
JsRaised(e, logged) ==
    /\ js_conn' = "closed"
    /\ IF ExceptException(e)
       THEN js_log' = js_log \o logged \o <<"Job error">> /\ js_pc' = "accept"
       ELSE js_log' = js_log \o logged /\ js_pc' = "dead"

\* if not hlen_b: conn.close(); continue
JwDrop ==
    /\ jw_pc = "closed" /\ js_pc = "stage"
    /\ js_conn' = "closed" /\ js_pc' = "accept"
    /\ UNCHANGED <<js_proc, js_log, js_job, js_dirs, js_wait, js_sent, us_vars, jw_vars,
                   wi_vars, pg_vars, sg_vars, dp_vars, dc_vars, rs_vars, gu_vars, pt_vars, ra_vars, pl_vars, co_vars, up_vars>>

\* recv_exact returned None where bytes were expected (.decode or struct.unpack
\* of None), or json.loads raised
StagingErrors == {"AttributeError", "TypeError", "ValueError"}
JwExcept ==
    /\ jw_pc = "error" /\ js_pc = "stage"
    /\ \E e \in StagingErrors : JsRaised(e, <<>>)
    /\ UNCHANGED <<js_proc, js_job, js_dirs, js_wait, js_sent, us_vars, jw_vars,
                   wi_vars, pg_vars, sg_vars, dp_vars, dc_vars, rs_vars, gu_vars, pt_vars, ra_vars, pl_vars, co_vars, up_vars>>

\* a job server that keeps the connection while it renders
ConnKept == "open"
\* conn.close() after the last dependency
ConnClosed == "closed"

\* the files are staged: conn.close(), then frames_dir, blender_exe and args
JwClose ==
    /\ jw_pc = "done" /\ js_pc = "stage"
    /\ js_conn' = ConnClosed /\ js_pc' = "launch"
    /\ UNCHANGED <<js_proc, js_log, js_job, js_dirs, js_wait, js_sent, us_vars, jw_vars,
                   wi_vars, pg_vars, sg_vars, dp_vars, dc_vars, rs_vars, gu_vars, pt_vars, ra_vars, pl_vars, co_vars, up_vars>>

\* log_fn("[CLIENT] Running: ..."); proc = subprocess.Popen(args, ...), which
\* raises when the executable cannot be started
JwPopen(ok) ==
    /\ js_pc = "launch"
    /\ IF ok THEN /\ js_proc' = js_proc + 1
                  /\ js_log' = Append(js_log, "Running")
                  /\ js_pc' = "stream"
                  /\ UNCHANGED js_conn
       ELSE JsRaised("OSError", <<"Running">>) /\ UNCHANGED js_proc
    /\ UNCHANGED <<js_job, js_dirs, js_wait, js_sent, us_vars, jw_vars,
                   wi_vars, pg_vars, sg_vars, dp_vars, dc_vars, rs_vars, gu_vars, pt_vars, ra_vars, pl_vars, co_vars, up_vars>>

JobCutNext ==
    \/ \E k \in JobWireSizes : JwRecvLen(k)
    \/ \E k \in JobWireSizes : JwRecvHeader(k)
    \/ \E k \in JobWireSizes : JwRecvSize(k)
    \/ \E k \in JobWireSizes : JwRecvBody(k)
    \/ JwDrop
    \/ JwExcept
    \/ JwClose
    \/ \E ok \in BOOLEAN : JwPopen(ok)

\* ------------------------------------------------------ progress accounting
NoProgress == [f |-> 0, called |-> FALSE]
\* main(): scene_start = [None], the three session sets empty, total_to_render = [0]
PgIdle ==
    /\ scene_start = <<>>
    /\ missing_set_current = {}
    /\ rendered_now = {}
    /\ total_to_render = 0
    /\ pg_grids = EmptyBag
    /\ pg_last = NoProgress

\* ------------------------------------------------------- dependency scan
NoOutput == [sentinel |-> "none", assets |-> {}]
NoResult == [raised |-> FALSE, out |-> NoOutput, pairs |-> <<>>]
DpIdle ==
    /\ dp_pc = "off"
    /\ dp_scene = None
    /\ dp_code = 0
    /\ dp_out = NoOutput
    /\ dp_result = NoResult
    /\ dp_pairs = <<>>
    /\ dp_log = <<>>
    /\ dp_deps = <<>>
DpInput ==
    /\ dp_pc = "run"
    /\ dp_scene \in Scenes
    /\ dp_code = 0
    /\ dp_out = NoOutput
    /\ dp_result = NoResult
    /\ dp_pairs = <<>>
    /\ dp_log = <<>>
    /\ dp_deps = <<>>

\* What the renderer printed: no line DEPS [...], such a line whose list is not
\* JSON, or the line with the sorted paths of the assets found
ScanOutputs ==
    {[sentinel |-> k, assets |-> {}] : k \in {"none", "bad"}}
    \cup {[sentinel |-> "ok", assets |-> S] :
            S \in {T \in SUBSET Assets : Cardinality(T) <= MaxDeps}}

\* code, out = run_capture([blender_exe, "-b", blend_path, "--python-expr", py])
DpRun(code, out) ==
    /\ dp_pc = "run"
    /\ dp_code' = code
    /\ dp_out' = out
    /\ dp_pc' = "scan"
    /\ UNCHANGED <<dp_scene, dp_result, dp_pairs, dp_log, dp_deps, dp_others>>

\* get_blend_dependencies after run_capture: raise RuntimeError carrying out, or
\* return the (abs_src, remote_rel) pairs; deps = [] when the line is missing or
\* its list does not parse
get_blend_dependencies(code, out) ==
    IF code # 0 THEN [raised |-> TRUE, out |-> out, pairs |-> <<>>]
    ELSE LET deps == IF out.sentinel = "ok" THEN SortedAssets(out.assets) ELSE <<>>
         IN [raised |-> FALSE, out |-> NoOutput,
             pairs |-> [i \in 1..Len(deps) |-> [path |-> deps[i], remote |-> remote_rel(deps[i])]]]

DpScan ==
    /\ dp_pc = "scan"
    /\ dp_result' = get_blend_dependencies(dp_code, dp_out)
    /\ dp_pc' = "handle"
    /\ UNCHANGED <<dp_scene, dp_code, dp_out, dp_pairs, dp_log, dp_deps, dp_others>>

\* start_render: try: dep_pairs = get_blend_dependencies(...)
\*               except Exception as ex: log_fn(f"[ERROR] Dependency scan: {ex}"); dep_pairs = []
DpHandle ==
    /\ dp_pc = "handle"
    /\ dp_log' = IF dp_result.raised
                 THEN Append(dp_log, [scene |-> dp_scene, out |-> dp_result.out])
                 ELSE dp_log
    /\ dp_pairs' = IF dp_result.raised THEN <<>> ELSE dp_result.pairs
    /\ dp_pc' = "header"
    /\ UNCHANGED <<dp_scene, dp_code, dp_out, dp_result, dp_deps, dp_others>>

\* start_render: dep_remote_list = [remote for (_a, remote) in dep_pairs], the
\* "dependencies" of every job header
DpHeader ==
    /\ dp_pc = "header"
    /\ dp_deps' = [i \in 1..Len(dp_pairs) |-> dp_pairs[i].remote]
    /\ dp_pc' = "done"
    /\ UNCHANGED <<dp_scene, dp_code, dp_out, dp_result, dp_pairs, dp_log, dp_others>>

DepsNext ==
    \/ \E code \in {0, 1}, out \in ScanOutputs : DpRun(code, out)
    \/ DpScan
    \/ DpHandle
    \/ DpHeader

\* ---------------------------------------------------------------- discovery
\* Text is a sequence of symbols: the separator "|", the characters of a
\* hostname, and whole words for the parts that hold no separator (the tag
\* CLIENT, an address, the digits of a port).
Sep == "|"
HostChars == {"h", Sep}
\* socket.gethostname() on the worker
Hostnames == UNION {[1..n -> HostChars] : n \in 1..MaxHost}
\* the workers' addresses, and the coordinator's as a worker sees it
DcIps == {"w1", "w2"}
CoordinatorAddr == "c"
\* JOB_PORT of the worker and JOB_PORT_DEFAULT of the coordinator, as text
JobPort == "50010"
JobPortDefault == "50010"

NoDatagram == [src |-> None, host |-> <<>>, data |-> <<>>]
NoEntry == [known |-> FALSE, hostname |-> <<>>, port |-> None, selected |-> FALSE]
NoReply == [ip |-> None, host |-> <<>>, port |-> None]
DcIdle ==
    /\ dc_msg = NoDatagram
    /\ dc_clients = [ip \in DcIps |-> NoEntry]
    /\ dc_last = NoReply
    /\ dc_keys = <<>>

\* nothing reads the roster, no discovery thread
RsIdle ==
    /\ rs_pc = "off" /\ rs_iter = [used |-> 0, pos |-> 0] /\ rs_snap = <<>> /\ rs_seen = {}
    /\ dl_pc = "off" /\ dl_log = <<>>
\* no App
NoApp == [finish_handled |-> FALSE, shutdown_scheduled |-> FALSE,
          shutdown_var |-> FALSE, closed |-> FALSE]
NoHist == [starts |-> 0, flagged |-> FALSE, shutdowns |-> 0]
GuIdle ==
    /\ gu_worker = <<>> /\ gu_stop = FALSE /\ gu_tk = "off" /\ gu_procs = {}
    /\ gu_app = NoApp /\ gu_hist = NoHist
\* no path
NoNames == [op |-> "none", names |-> <<>>]
NoWrites == [dir |-> <<>>, files |-> {}]
PtIdle == pt_pc = "off" /\ pt_in = NoNames /\ pt_out = NoWrites

\* no job server: nothing listens on JOB_PORT
NoServed == [n |-> 0, cmd |-> None, id |-> None, peer |-> None, start |-> 0, end |-> 0,
             cur |-> 0, todo |-> <<>>]
NoPeer == [state |-> "none", peer |-> None, n |-> 0]
UsIdle == us_pc = "off" /\ us_conn = NoPeer /\ us_log = <<>>
JsIdle ==
    /\ js_pc = "off" /\ js_conn = "none" /\ js_proc = 0 /\ js_log = <<>>
    /\ js_job = NoServed /\ js_dirs = <<>> /\ js_wait = <<>> /\ js_sent = <<>>
    /\ UsIdle

\* f"CLIENT|{hostname}|{addr[0]}|{JOB_PORT}"
reply(hostname, addr) == <<"CLIENT", Sep>> \o hostname \o <<Sep, addr, Sep, JobPort>>

\* data.decode().split("|")
RECURSIVE split(_)
split(text) ==
    IF \A i \in 1..Len(text) : text[i] # Sep THEN <<text>>
    ELSE LET i == CHOOSE k \in 1..Len(text) :
                      text[k] = Sep /\ \A j \in 1..(k - 1) : text[j] # Sep
         IN <<SubSeq(text, 1, i - 1)>> \o split(SubSeq(text, i + 1, Len(text)))

\* try: job_port = int(msg[3]); except: job_port = JOB_PORT_DEFAULT
int_or_default(field) == IF field = <<JobPort>> THEN JobPort ELSE JobPortDefault

\* start_client_discovery.listen: the worker at ip answers a discovery
\* broadcast; its hostname is whatever the machine is called at that time
DcReply(ip, hostname) ==
    /\ dc_msg = NoDatagram
    /\ dc_msg' = [src |-> ip, host |-> hostname, data |-> reply(hostname, CoordinatorAddr)]
    /\ UNCHANGED <<dc_clients, dc_last, dc_keys, dc_others>>

\* a discover_once that makes the entry anew on every reply
EntryReplaced(entry, hostname, job_port) ==
    [known |-> TRUE, hostname |-> hostname, port |-> job_port, selected |-> TRUE]
\* if ip not in clients: clients[ip] = {"hostname", "port", "checkbox",
\* "selected": True}; else: clients[ip]["hostname"], clients[ip]["port"]
EntryUpdated(entry, hostname, job_port) ==
    IF entry.known
    THEN [entry EXCEPT !.hostname = hostname, !.port = job_port]
    ELSE [known |-> TRUE, hostname |-> hostname, port |-> job_port, selected |-> TRUE]

\* discover_once: data, addr = sock.recvfrom(1024) and the parse; a new ip gets
\* an entry, a known ip has hostname and port replaced
DcReceive ==
    /\ dc_msg # NoDatagram
    /\ LET msg == split(dc_msg.data)
       IN IF Len(msg) >= 4 /\ msg[1] = <<"CLIENT">>
          THEN /\ dc_clients' = [dc_clients EXCEPT ![dc_msg.src] =
                                    EntryUpdated(@, msg[2], int_or_default(msg[4]))]
               /\ dc_keys' = IF dc_clients[dc_msg.src].known THEN dc_keys
                             ELSE Append(dc_keys, dc_msg.src)
          ELSE UNCHANGED <<dc_clients, dc_keys>>
    /\ dc_last' = [ip |-> dc_msg.src, host |-> dc_msg.host, port |-> JobPort]
    /\ dc_msg' = NoDatagram
    /\ UNCHANGED dc_others

\* set_client_selected(ip, val), the on_change of the worker's checkbox
DcSelect(ip, val) ==
    /\ dc_clients[ip].known
    /\ dc_clients' = [dc_clients EXCEPT ![ip].selected = val]
    /\ UNCHANGED <<dc_msg, dc_last, dc_keys, dc_others>>

DiscoveryNext ==
    \/ \E ip \in DcIps, hostname \in Hostnames : DcReply(ip, hostname)
    \/ DcReceive
    \/ \E ip \in DcIps, val \in BOOLEAN : DcSelect(ip, val)

\* The discovery thread: discovery_loop calling discover_once every 3 s.
\* A byte sequence that is not UTF-8 is the one symbol BadByte.
BadByte == "\\xff"
\* datagrams that are not a worker's reply: too few fields, another tag, bytes
\* that do not decode
StrayData == {<<"CLIENT", Sep, "h">>, <<"HELLO", Sep, "h", Sep, "c", Sep, JobPort>>,
              <<BadByte>>}
\* data.decode() returns
Decodes(data) == \A i \in 1..Len(data) : data[i] # BadByte
\* the reply passes len(msg) >= 4 and msg[0] == "CLIENT"
Accepted(data) ==
    Decodes(data) /\ Len(split(data)) >= 4 /\ split(data)[1] = <<"CLIENT">>

\* discover_once: sock.sendto(DISCOVERY_MAGIC, broadcast).  An OSError (no
\* route, interface down) is not a socket.timeout: the finally closes the
\* socket and the exception leaves discover_once and discovery_loop.
DlSend(ok) ==
    /\ dl_pc = "send"
    /\ dl_pc' = IF ok THEN "recv" ELSE "dead"
    /\ UNCHANGED <<rs_pc, rs_iter, rs_snap, rs_seen, dl_log, dc_vars, rs_others>>

\* a datagram that is no worker's reply reaches the socket
DlStray(ip, data) ==
    /\ dl_pc = "recv"
    /\ dc_msg = NoDatagram
    /\ dc_msg' = [src |-> ip, host |-> <<>>, data |-> data]
    /\ UNCHANGED <<dc_clients, dc_last, dc_keys, dc_others>>

\* discover_once: data, addr = sock.recvfrom(1024); msg = data.decode().split("|")
\* and the if; a UnicodeDecodeError leaves the function like the OSError
DlRecv ==
    /\ dl_pc = "recv"
    /\ dc_msg # NoDatagram
    /\ IF Decodes(dc_msg.data)
       THEN DcReceive
       ELSE /\ dl_pc' = "dead"
            /\ dc_msg' = NoDatagram
            /\ UNCHANGED <<rs_pc, rs_iter, rs_snap, rs_seen, dl_log,
                           dc_clients, dc_last, dc_keys, rs_others>>

\* discover_once: except socket.timeout: pass; finally: sock.close()
DlTimeout ==
    /\ dl_pc = "recv"
    /\ dc_msg = NoDatagram
    /\ dl_pc' = "sleep"
    /\ UNCHANGED <<rs_pc, rs_iter, rs_snap, rs_seen, dl_log, dc_vars, rs_others>>

\* discovery_loop: time.sleep(3), then the next discover_once
DlSleep ==
    /\ dl_pc = "sleep"
    /\ dl_pc' = "send"
    /\ UNCHANGED <<rs_pc, rs_iter, rs_snap, rs_seen, dl_log, dc_vars, rs_others>>

\* start_render's [(ip, info) for ip, info in clients.items() if
\* info.get("selected")], run in the handler's thread while the discovery thread
\* and the checkbox handlers write the same dict.  No lock guards clients.
SelectedNow(roster) == {ip \in DcIps : roster[ip].known /\ roster[ip].selected}

\* iter(clients.items()): the iterator keeps the dict's size and a position
RsBegin ==
    /\ rs_pc \in {"idle", "done", "raised"}
    /\ rs_pc' = "iter"
    /\ rs_iter' = [used |-> Len(dc_keys), pos |-> 0]
    /\ rs_snap' = <<>>
    /\ rs_seen' = {SelectedNow(dc_clients)}
    /\ UNCHANGED <<dl_pc, dl_log, dc_vars, rs_others>>

\* next(iterator): RuntimeError("dictionary changed size during iteration")
\* when the size differs from the one kept, StopIteration past the last key,
\* else the next key in insertion order, which the if keeps when selected
RsStep ==
    /\ rs_pc = "iter"
    /\ IF rs_iter.used # Len(dc_keys)
       THEN rs_pc' = "raised" /\ UNCHANGED <<rs_iter, rs_snap>>
       ELSE IF rs_iter.pos = rs_iter.used
       THEN rs_pc' = "done" /\ UNCHANGED <<rs_iter, rs_snap>>
       ELSE LET ip == dc_keys[rs_iter.pos + 1] IN
            /\ rs_pc' = "iter"
            /\ rs_iter' = [rs_iter EXCEPT !.pos = @ + 1]
            /\ rs_snap' = IF dc_clients[ip].selected THEN Append(rs_snap, ip) ELSE rs_snap
    /\ UNCHANGED <<rs_seen, dl_pc, dl_log, dc_vars, rs_others>>

\* what the roster holds is noted while a comprehension is under way
Seen(roster) == IF rs_pc = "iter" THEN rs_seen \cup {SelectedNow(roster)} ELSE rs_seen

\* discover_once takes the reply of the worker at ip (hostname h, JOB_PORT)
RsDiscover(ip) ==
    /\ dc_clients' = [dc_clients EXCEPT ![ip] = EntryUpdated(@, <<"h">>, JobPort)]
    /\ dc_keys' = IF dc_clients[ip].known THEN dc_keys ELSE Append(dc_keys, ip)
    /\ rs_seen' = Seen(dc_clients')
    /\ UNCHANGED <<rs_pc, rs_iter, rs_snap, dl_pc, dl_log, dc_msg, dc_last, rs_others>>

\* set_client_selected(ip, val) from the checkbox of the worker at ip
RsSelect(ip, val) ==
    /\ dc_clients[ip].known
    /\ dc_clients' = [dc_clients EXCEPT ![ip].selected = val]
    /\ rs_seen' = Seen(dc_clients')
    /\ UNCHANGED <<rs_pc, rs_iter, rs_snap, dl_pc, dl_log, dc_msg, dc_last, dc_keys,
                   rs_others>>

RosterNext ==
    \/ RsBegin
    \/ RsStep
    \/ \E ip \in DcIps : RsDiscover(ip)
    \/ \E ip \in DcIps, val \in BOOLEAN : RsSelect(ip, val)

DiscoveryLoopNext ==
    \/ \E ok \in BOOLEAN : DlSend(ok)
    \/ \E ip \in DcIps, hostname \in Hostnames : dl_pc = "recv" /\ DcReply(ip, hostname)
    \/ \E ip \in DcIps, data \in StrayData : DlStray(ip, data)
    \/ DlRecv
    \/ DlTimeout
    \/ DlSleep

FnIdle == WiIdle /\ JwIdle /\ PgIdle /\ SgIdle /\ DpIdle /\ DcIdle /\ RsIdle /\ GuIdle /\ PtIdle /\ JsIdle

\* ------------------------------------------------------------ coordinator
\* chunk_size.value as start_render reads it: empty, not a number, or a number
ChunkInputs ==
    {[kind |-> "empty", val |-> 0], [kind |-> "text", val |-> 0]}
    \cup {[kind |-> "int", val |-> n] : n \in 0..MaxChunk}

\* the frame range stored in each scene file (frame_start, frame_end)
SceneRange(blend) == IF blend = "a" THEN <<1, MaxFrame>> ELSE <<MaxFrame, MaxFrame>>
FullRange(blend) == SceneRange(blend)[1]..SceneRange(blend)[2]

\* start_render up to page.run_thread(lambda: grid_cb(s_start, s_end, existing)):
\* the call is handed to a pool thread and start_render goes on.  The frames
\* of existing outside the range play no part in grid_cb and are left out.
ScheduleGrid(blend, existing) ==
    /\ BagCardinality(pg_grids) < MaxGrids
    /\ pg_grids' = pg_grids (+) SetToBag({[start |-> SceneRange(blend)[1], end |-> SceneRange(blend)[2],
                                           existing |-> existing, pc |-> "rebind"]})
    /\ UNCHANGED <<scene_start, missing_set_current, rendered_now, total_to_render, pg_last,
                   wi_vars, jw_vars, sg_vars, dp_vars, dc_vars, rs_vars, gu_vars, pt_vars, js_vars, ra_vars, pl_vars, co_vars, up_vars>>

\* the grid_cb call g moves to position pc, or returns
GridAt(g, pc) == (pg_grids (-) SetToBag({g})) (+) SetToBag({[g EXCEPT !.pc = pc]})
GridReturns(g) == pg_grids (-) SetToBag({g})

\* grid_cb: scene_start[0], scene_end[0] = start, end; existing_set_current = ...;
\* missing_set_current = full - existing_set_current
GridRebind(g) ==
    /\ g.pc = "rebind"
    /\ scene_start' = <<g.start>>
    /\ missing_set_current' = (g.start..g.end) \ g.existing
    /\ pg_grids' = GridAt(g, "clear")
    /\ UNCHANGED <<rendered_now, total_to_render, pg_last,
                   wi_vars, jw_vars, sg_vars, dp_vars, dc_vars, rs_vars, gu_vars, pt_vars, js_vars, ra_vars, pl_vars, co_vars, up_vars>>

\* grid_cb: rendered_now.clear()
GridClear(g) ==
    /\ g.pc = "clear"
    /\ rendered_now' = {}
    /\ pg_grids' = GridAt(g, "total")
    /\ UNCHANGED <<scene_start, missing_set_current, total_to_render, pg_last,
                   wi_vars, jw_vars, sg_vars, dp_vars, dc_vars, rs_vars, gu_vars, pt_vars, js_vars, ra_vars, pl_vars, co_vars, up_vars>>

\* grid_cb: total_to_render[0] = len(missing_set_current); the rest of grid_cb
\* draws the grid
GridTotal(g) ==
    /\ g.pc = "total"
    /\ total_to_render' = Cardinality(missing_set_current)
    /\ pg_grids' = GridReturns(g)
    /\ UNCHANGED <<scene_start, missing_set_current, rendered_now, pg_last,
                   wi_vars, jw_vars, sg_vars, dp_vars, dc_vars, rs_vars, gu_vars, pt_vars, js_vars, ra_vars, pl_vars, co_vars, up_vars>>

\* a progress_cb that counts every frame reported
CountsAny(f) == TRUE
\* progress_cb: if f in missing_set_current
Counts(f) == f \in missing_set_current

\* progress_cb(f), called by the upload server with the frame number of the
\* header and by the local worker with the number of a Saved: line
progress_cb(f) ==
    /\ pg_last' = [f |-> f, called |-> TRUE]
    /\ rendered_now' = IF scene_start # <<>> /\ Counts(f) THEN rendered_now \cup {f}
                       ELSE rendered_now
    /\ UNCHANGED <<scene_start, missing_set_current, total_to_render, pg_grids,
                   wi_vars, jw_vars, sg_vars, dp_vars, dc_vars, rs_vars, gu_vars, pt_vars, js_vars, ra_vars, pl_vars, co_vars, up_vars>>

ReportedFrames == 0..(MaxFrame + 1)
ProgressNext ==
    \/ \E blend \in Scenes : \E existing \in SUBSET FullRange(blend) : ScheduleGrid(blend, existing)
    \/ \E g \in BagToSet(pg_grids) : GridRebind(g)
    \/ \E g \in BagToSet(pg_grids) : GridClear(g)
    \/ \E g \in BagToSet(pg_grids) : GridTotal(g)
    \/ \E f \in ReportedFrames : progress_cb(f)


\* get_blend_frame_range: raises, or returns the scene's (frame_start, frame_end)
ProbeResults(blend) ==
    {[ok |-> FALSE, s |-> 0, e |-> 0],
     [ok |-> TRUE, s |-> SceneRange(blend)[1], e |-> SceneRange(blend)[2]]}

\* cs = max(1, int(chunk_size.value.strip() or "100")); except: cs = 100
ChunkSize(v) == IF v.kind = "int" THEN Max(1, v.val) ELSE DefaultChunk

\* all_frames built as range(s_start, s_end + 2): one frame past the scene's end
MissingFramesPastEnd(s_start, s_end, existing) ==
    AscendingSeq(s_start, s_end + 1, (s_start..(s_end + 1)) \ existing)

\* missing = [f for f in all_frames if f not in existing]
MissingFrames(s_start, s_end, existing) ==
    AscendingSeq(s_start, s_end, (s_start..s_end) \ existing)

\* ranges = list(contiguous_ranges(sorted(missing)))
\* chunks = list(split_ranges_by_chunk(ranges, cs))
BuildPlan(missing, cs) == split_ranges_by_chunk(contiguous_ranges(sorted(missing)), cs)

\* ------------------------------------------------------------ SpecPlan
\* start_render's plan computation on drawn inputs: a scene range, the frames
\* already in the output directory, and the chunk size field
PlInput ==
    /\ pl_pc = "input"
    /\ pl_first \in Values
    /\ pl_last \in Values
    /\ pl_existing \in SUBSET Values
    /\ pl_v \in ChunkInputs
    /\ pl_missing = <<>>
    /\ pl_chunks = <<>>

PlIdle ==
    /\ pl_pc = "off"
    /\ pl_first = 0
    /\ pl_last = 0
    /\ pl_existing = {}
    /\ pl_v = [kind |-> "empty", val |-> 0]
    /\ pl_missing = <<>>
    /\ pl_chunks = <<>>

\* all_frames, missing; `if not missing: return`
PlMissing ==
    /\ pl_pc = "input"
    /\ pl_missing' = MissingFrames(pl_first, pl_last, pl_existing)
    /\ pl_pc' = IF pl_missing' = <<>> THEN "no_missing" ELSE "missing"
    /\ UNCHANGED <<pl_first, pl_last, pl_existing, pl_v, pl_chunks, ra_vars, co_vars, up_vars, fn_vars>>

\* cs, ranges, chunks
PlChunks ==
    /\ pl_pc = "missing"
    /\ pl_chunks' = BuildPlan(pl_missing, ChunkSize(pl_v))
    /\ pl_pc' = "planned"
    /\ UNCHANGED <<pl_first, pl_last, pl_existing, pl_v, pl_missing, ra_vars, co_vars, up_vars, fn_vars>>

PlNext == PlMissing \/ PlChunks

\* active_clients = [(ip, info) for ip, info in clients.items() if info.get("selected")]
ActiveClients(cl) ==
    LET sel == SelectSeq(cl, LAMBDA c : c.selected)
    IN [i \in 1..Len(sel) |-> sel[i].ip]

\* workers = [("local", None)] + [("client", (ip, info)) ...]
Roster(active) == <<"local">> \o active

\* assignments[("client", (ip, info))] = []: the key holds the dict `info`, and
\* hashing a tuple that holds a dict raises TypeError (unhashable type: 'dict').
\* The first selected client therefore ends start_render at this line.
AssignmentKeyRaises(active) == active # <<>>

\* for i, ch in enumerate(chunks): assignments[workers[i % len(workers)]].append(ch)
RECURSIVE AssignLoop(_, _, _, _)
AssignLoop(chunks, i, workers, asg) ==
    IF i > Len(chunks) THEN asg
    ELSE LET w == workers[((i - 1) % Len(workers)) + 1]
         IN AssignLoop(chunks, i + 1, workers, [asg EXCEPT ![w] = Append(@, chunks[i])])

RoundRobin(chunks, workers) ==
    AssignLoop(chunks, 1, workers, [w \in SeqSet(workers) |-> <<>>])

\* the loop over assignments.items(): one send_job per client with chunks,
\* header start = cl_chunks[0][0], end = cl_chunks[-1][1]
RECURSIVE ClientJobs(_, _, _)
ClientJobs(asg, active, blend) ==
    IF active = <<>> THEN <<>>
    ELSE LET ip == Head(active)
             cl == asg[ip]
         IN (IF cl = <<>> THEN <<>>
             ELSE << [ip |-> ip, scene |-> blend,
                      start |-> cl[1][1], end |-> cl[Len(cl)][2]] >>)
            \o ClientJobs(asg, Tail(active), blend)

\* local_worker[0] and local_worker[0].is_alive()
LocalWorkerAlive == local_worker # 0 /\ threads[local_worker].pc # "dead"

\* LocalChunksWorker(blender, blend_file, render_dir, local_chunks, ...)
NewThread(blend, render_dir, chunks) ==
    [scene |-> blend, render_dir |-> render_dir,
     chunks |-> chunks, pos |-> 1, pc |-> "loop", cur |-> 0, clean |-> TRUE,
     launched |-> <<>>,   \* the chunks render_chunk ran Popen for, by position
     exits |-> <<>>,      \* what proc.wait() returned, and stop_flag as read after it
     log |-> <<>>,        \* the "[ERROR] Blender exited with {code}" lines
     live |-> {},         \* the renderer subprocesses started and not yet exited
     reading |-> FALSE]   \* render_chunk is inside proc.stdout.readline()

\* render_dir = Path(out_root.value).resolve() / blend_file.stem
RenderDir(blend) == blend

\* start_render, "Time estimate baseline": the statement
\*     missing_set_current |= missing_set
\* binds the name missing_set_current in start_render, which declares it neither
\* nonlocal nor global, so the name is a local of start_render throughout and
\*     missing_set_current.clear()
\* on the line before raises UnboundLocalError in every call that reaches it.
SessionVarsRaise == TRUE

\* the locals of one start_render call when it returns or raises
StartRenderLocals(exists, probe_ok, v) ==
    IF file_list = <<>> THEN [NoCall EXCEPT !.outcome = "no_files"]
    ELSE LET blend == file_list[1]
             probe == CHOOSE r \in ProbeResults(blend) : r.ok = probe_ok
         IN
    IF ~exists THEN [NoCall EXCEPT !.outcome = "not_found", !.scene = blend,
                                   !.listed = Len(file_list)]
    ELSE IF ~probe.ok THEN [NoCall EXCEPT !.outcome = "probe_failed", !.scene = blend,
                                          !.listed = Len(file_list), !.probed = 1]
    ELSE LET existing == out_dir[RenderDir(blend)]
             missing == MissingFrames(probe.s, probe.e, existing)
             base == [NoCall EXCEPT !.scene = blend, !.listed = Len(file_list),
                                    !.probed = 1, !.s_start = probe.s,
                                    !.s_end = probe.e, !.existing = existing,
                                    !.missing = missing]
         IN
    IF missing = <<>> THEN [base EXCEPT !.outcome = "no_missing"]
    ELSE LET cs == ChunkSize(v)
             chunks == BuildPlan(missing, cs)
             active == ActiveClients(clients)
             alive == LocalWorkerAlive
             planned == [base EXCEPT !.v = v, !.cs = cs, !.chunks = chunks, !.active = active,
                                     !.alive = alive]
         IN
    IF AssignmentKeyRaises(active) THEN [planned EXCEPT !.outcome = "raised"]
    ELSE LET asg == RoundRobin(chunks, Roster(active))
         IN
    IF SessionVarsRaise
    THEN [planned EXCEPT !.outcome = "raised_local", !.assignments = asg]
    ELSE [planned EXCEPT !.outcome = "complete",
                            !.assignments = asg,
                            !.started = (~alive /\ asg["local"] # <<>>),
                            !.jobs = ClientJobs(asg, active, blend)]

start_render(exists, probe_ok, v) ==
    LET L == StartRenderLocals(exists, probe_ok, v) IN
    /\ call' = L
    /\ current_blend_file' =
         IF L.outcome \in {"no_files", "not_found"} THEN current_blend_file ELSE L.scene
    /\ stop_flag' = IF L.outcome = "complete" THEN FALSE ELSE stop_flag
    /\ IF L.started
       THEN LET running == SelectSeq(threads, LAMBDA th : th.pc # "dead")
            IN /\ threads' = Append(running,
                      NewThread(L.scene, RenderDir(L.scene), L.assignments["local"]))
               /\ local_worker' = Len(running) + 1
       ELSE UNCHANGED <<threads, local_worker>>
    /\ sent_jobs' = sent_jobs \o L.jobs

\* The grid_cb call that start_render hands to run_thread touches only the
\* session counters; ScheduleGrid and SpecProgress follow it.
\* An input the call does not read on its path is not drawn: the file's
\* existence is read only with a non-empty list, the probe only for an existing
\* file, the chunk size field only when frames are missing.
InputsRead(exists, probe_ok, v) ==
    /\ file_list = <<>> => exists
    /\ ~exists => probe_ok
    /\ (~probe_ok \/ file_list = <<>>
        \/ MissingFrames(SceneRange(file_list[1])[1], SceneRange(file_list[1])[2],
                         out_dir[RenderDir(file_list[1])]) = <<>>) => v = NoChunkInput

StartRender ==
    /\ \E exists \in BOOLEAN, ok \in BOOLEAN, v \in ChunkInputs :
          /\ InputsRead(exists, ok, v)
          /\ start_render(exists, ok, v)
    /\ UNCHANGED <<file_list, clients, out_dir, pure_vars, up_vars>>

\* stop_render
StopRender ==
    /\ stop_flag' = IF LocalWorkerAlive THEN TRUE ELSE stop_flag
    /\ UNCHANGED <<file_list, clients, out_dir, current_blend_file, threads,
                   local_worker, sent_jobs, call, pure_vars, up_vars>>

\* on_files_result / handle_drop: append a .blend path
AddFile(f) ==
    /\ Len(file_list) < MaxFiles
    /\ file_list' = Append(file_list, f)
    /\ UNCHANGED <<clients, out_dir, current_blend_file, stop_flag, threads,
                   local_worker, sent_jobs, call, pure_vars, up_vars>>

\* remove_selected: file_list.controls.pop()
RemoveSelected ==
    /\ file_list # <<>>
    /\ file_list' = SubSeq(file_list, 1, Len(file_list) - 1)
    /\ UNCHANGED <<clients, out_dir, current_blend_file, stop_flag, threads,
                   local_worker, sent_jobs, call, pure_vars, up_vars>>

\* clear_list
ClearList ==
    /\ file_list' = <<>>
    /\ UNCHANGED <<clients, out_dir, current_blend_file, stop_flag, threads,
                   local_worker, sent_jobs, call, pure_vars, up_vars>>

\* discover_once: a CLIENT reply from source address ip
DiscoverReply(ip) ==
    /\ clients' = IF \E i \in 1..Len(clients) : clients[i].ip = ip
                  THEN clients
                  ELSE Append(clients, [ip |-> ip, selected |-> TRUE])
    /\ UNCHANGED <<file_list, out_dir, current_blend_file, stop_flag, threads,
                   local_worker, sent_jobs, call, pure_vars, up_vars>>

\* set_client_selected(ip, val), the checkbox's on_change
SetClientSelected(ip, val) ==
    /\ clients' = [i \in 1..Len(clients) |->
                     IF clients[i].ip = ip THEN [clients[i] EXCEPT !.selected = val]
                     ELSE clients[i]]
    /\ UNCHANGED <<file_list, out_dir, current_blend_file, stop_flag, threads,
                   local_worker, sent_jobs, call, pure_vars, up_vars>>

\* --- LocalChunksWorker.run and render_chunk, one thread t
SetThread(t, rec) == threads' = [threads EXCEPT ![t] = rec]

\* A thread whose run() has returned: is_alive() is False; clean records
\* whether every chunk ran to exit code 0.
Finished(th, cl) == [th EXCEPT !.pc = "dead", !.cur = 0, !.clean = cl, !.reading = FALSE]

\* run(): for a, b in self.chunks: if stop_flag.is_set(): return; render_chunk(...)
\* up to subprocess.Popen
WorkerLoop(t) ==
    LET th == threads[t] IN
    /\ th.pc = "loop"
    /\ IF th.pos > Len(th.chunks) THEN SetThread(t, Finished(th, th.clean))
       ELSE IF stop_flag THEN SetThread(t, Finished(th, FALSE))
       ELSE SetThread(t, [th EXCEPT !.pc = "proc", !.cur = th.chunks[th.pos][1],
                                    !.launched = Append(@, th.pos),
                                    !.live = @ \cup {th.pos}])
    /\ UNCHANGED <<file_list, clients, out_dir, current_blend_file, stop_flag,
                   local_worker, sent_jobs, call, pure_vars, up_vars>>

\* render_chunk: the stop flag is not set at the top of the loop, and the
\* thread enters line = proc.stdout.readline(), which returns with the
\* renderer's next line or at the end of its output
WorkerReads(t) ==
    LET th == threads[t] IN
    /\ th.pc = "proc"
    /\ ~th.reading
    /\ ~stop_flag
    /\ SetThread(t, [th EXCEPT !.reading = TRUE])
    /\ UNCHANGED <<file_list, clients, out_dir, current_blend_file, stop_flag,
                   local_worker, sent_jobs, call, pure_vars, up_vars>>

\* the renderer writes the next frame of -s a -e b into -o render_dir/#### and
\* prints its Saved: line, which readline returns
RendererSaves(t) ==
    LET th == threads[t] IN
    /\ th.pc = "proc"
    /\ th.cur <= th.chunks[th.pos][2]
    /\ out_dir' = [out_dir EXCEPT ![th.render_dir] = @ \cup {th.cur}]
    /\ SetThread(t, [th EXCEPT !.cur = th.cur + 1, !.reading = FALSE])
    /\ UNCHANGED <<file_list, clients, current_blend_file, stop_flag,
                   local_worker, sent_jobs, call, pure_vars, up_vars>>

\* a render_chunk that reports every non-zero exit
ReportsFailureAlways(code, stop) == code # 0
\* render_chunk: if code != 0 and not stop_flag.is_set()
ReportsFailure(code, stop) == code # 0 /\ ~stop

\* render_chunk: readline returns EOF and poll() is not None; code = proc.wait();
\* the error line.  Exit code 0 once every frame of the chunk is saved; a
\* non-zero exit at any point.
RendererExits(t, code) ==
    LET th == threads[t] IN
    /\ th.pc = "proc"
    /\ code = 0 => th.cur > th.chunks[th.pos][2]
    /\ SetThread(t, [th EXCEPT !.pc = "loop", !.pos = th.pos + 1, !.cur = 0,
                               !.clean = (@ /\ code = 0),
                               !.exits = Append(@, [chunk |-> th.pos, code |-> code,
                                                    stop |-> stop_flag]),
                               !.log = IF ReportsFailure(code, stop_flag)
                                       THEN Append(@, [chunk |-> th.pos, code |-> code])
                                       ELSE @,
                               !.live = @ \ {th.pos},
                               !.reading = FALSE])
    /\ UNCHANGED <<file_list, clients, out_dir, current_blend_file, stop_flag,
                   local_worker, sent_jobs, call, pure_vars, up_vars>>

\* render_chunk: if stop_flag.is_set(): proc.terminate(); return.  terminate()
\* sends the signal to the renderer process and returns at once; nothing waits
\* for the process, and its children receive no signal.
WorkerSeesStop(t) ==
    LET th == threads[t] IN
    /\ th.pc = "proc"
    /\ ~th.reading
    /\ stop_flag
    /\ SetThread(t, [th EXCEPT !.pc = "loop", !.pos = th.pos + 1, !.cur = 0,
                               !.clean = FALSE])
    /\ UNCHANGED <<file_list, clients, out_dir, current_blend_file, stop_flag,
                   local_worker, sent_jobs, call, pure_vars, up_vars>>

\* a renderer subprocess that render_chunk has left behind exits
RendererGone(t, c) ==
    LET th == threads[t] IN
    /\ c \in th.live
    /\ ~(th.pc = "proc" /\ th.pos = c)
    /\ SetThread(t, [th EXCEPT !.live = @ \ {c}])
    /\ UNCHANGED <<file_list, clients, out_dir, current_blend_file, stop_flag,
                   local_worker, sent_jobs, call, pure_vars, up_vars>>

\* ------------------------------------------- worker job server, upload server
\* start_job_server.server blocked in sock.accept()
NoJob == [pc |-> "accept", file |-> None, start |-> 0, end |-> 0, cur |-> 0,
          frames |-> {}, todo |-> <<>>]
NoUpload == [dir |-> None, frame |-> 0, job |-> None, stopped |-> FALSE]
UpIdle == wk_job = NoJob /\ wk_count = 0 /\ up_queue = <<>> /\ up_last = NoUpload

\* sorted(frames_dir.iterdir())[-1], the zero-padded names ordering as the numbers
LastSorted(S) == CHOOSE x \in S : \A y \in S : y <= x

\* get_render_dir
get_render_dir ==
    IF current_blend_file = None THEN Renders ELSE RenderDir(current_blend_file)

\* send_frame: the header is {"frame", "filename"}; job names the scene of the job
\* whose frames directory the file came from and is not part of the message.
\* connect() fails once the listen backlog is full and the error is only logged.
send_frame(frame) ==
    up_queue' = IF Len(up_queue) < MaxBacklog
                THEN Append(up_queue, [frame |-> frame, job |-> wk_job.file])
                ELSE up_queue

\* server(): accept a connection from any peer, read the header of a render
\* job and its .blend, up to subprocess.Popen with -s start -e end
JobArrives(file, a, b) ==
    /\ wk_job.pc = "accept"
    /\ wk_count < MaxJobs
    /\ wk_count' = wk_count + 1
    /\ wk_job' = [pc |-> "render", file |-> file, start |-> a, end |-> b,
                  cur |-> a, frames |-> {}, todo |-> <<>>]
    /\ UNCHANGED <<up_queue, up_last, co_vars, pure_vars>>

\* the renderer prints Saved: for its next frame; the server uploads the last
\* file of sorted(frames_dir.iterdir())
WkSaves ==
    /\ wk_job.pc = "render"
    /\ wk_job.cur <= wk_job.end
    /\ wk_job' = [wk_job EXCEPT !.frames = @ \cup {wk_job.cur}, !.cur = @ + 1]
    /\ send_frame(LastSorted(wk_job.frames \cup {wk_job.cur}))
    /\ UNCHANGED <<wk_count, up_last, co_vars, pure_vars>>

\* the renderer exits: the safety re-upload lists sorted(frames_dir.iterdir())
WkExits ==
    /\ wk_job.pc = "render"
    /\ wk_job' = [wk_job EXCEPT !.pc = "safety",
                                !.todo = AscendingSeq(1, MaxFrame, wk_job.frames)]
    /\ UNCHANGED <<wk_count, up_queue, up_last, co_vars, pure_vars>>

\* for img in sorted(frames_dir.iterdir()): send_frame(...); then accept again
WkSafety ==
    /\ wk_job.pc = "safety"
    /\ IF wk_job.todo = <<>>
       THEN wk_job' = NoJob /\ UNCHANGED up_queue
       ELSE /\ wk_job' = [wk_job EXCEPT !.todo = Tail(@)]
            /\ send_frame(Head(wk_job.todo))
    /\ UNCHANGED <<wk_count, up_last, co_vars, pure_vars>>

\* an upload server that accepts nothing once the stop flag is set
UploadAcceptsUnlessStopped == up_queue # <<>> /\ ~stop_flag
\* conn, addr = srv.accept(): a connection is waiting
UploadAccepts == up_queue # <<>>

\* start_upload_server.server: accept, read the header, write the file into
\* get_render_dir() / filename
UploadServe ==
    /\ UploadAccepts
    /\ LET h == Head(up_queue)
           render_dir == get_render_dir
       IN /\ out_dir' = [out_dir EXCEPT ![render_dir] = @ \cup {h.frame}]
          /\ up_last' = [dir |-> render_dir, frame |-> h.frame, job |-> h.job,
                          stopped |-> stop_flag]
    /\ up_queue' = Tail(up_queue)
    /\ UNCHANGED <<wk_job, wk_count, file_list, clients, current_blend_file, stop_flag,
                   threads, local_worker, sent_jobs, call, pure_vars>>

UpNext ==
    \/ \E file \in Scenes, a \in Frames, b \in Frames : a <= b /\ JobArrives(file, a, b)
    \/ WkSaves
    \/ WkExits
    \/ WkSafety
    \/ UploadServe
    \/ \E f \in Scenes : AddFile(f)
    \/ RemoveSelected
    \/ StartRender


Next ==
    \/ StartRender
    \/ StopRender
    \/ \E f \in Scenes : AddFile(f)
    \/ RemoveSelected
    \/ ClearList
    \/ \E ip \in Ips : DiscoverReply(ip)
    \/ \E ip \in Ips, val \in BOOLEAN : SetClientSelected(ip, val)

\* --- the dispatch part of start_render on its own: the plan, the round-robin
\* and the loop over the clients' assignments, for the list, the roster and the
\* output directories as they are, leaving out the two statements that raise
\* blend_file.stem: the name of the scene file without its suffix
Stem(blend) == <<blend>>
\* str.replace(" ", "_")
ReplaceSpaces(text) == [i \in 1..Len(text) |-> IF text[i] = " " THEN "_" ELSE text[i]]
\* f"{blend_file.stem}_{a}-{b}".replace(" ", "_")
job_id(blend, a, b) == [stem |-> ReplaceSpaces(Stem(blend)), a |-> a, b |-> b]

DispatchJobs(v) ==
    /\ file_list # <<>>
    /\ Len(sent_jobs) < MaxSent
    /\ LET blend == file_list[1]
           existing == out_dir[RenderDir(blend)]
           missing == MissingFrames(SceneRange(blend)[1], SceneRange(blend)[2], existing)
           cs == ChunkSize(v)
           chunks == BuildPlan(missing, cs)
           active == ActiveClients(clients)
           asg == RoundRobin(chunks, Roster(active))
           jobs == ClientJobs(asg, active, blend)
       IN /\ missing # <<>>
          /\ sent_jobs' = sent_jobs \o jobs
          /\ call' = [NoCall EXCEPT !.outcome = "dispatched", !.scene = blend,
                                    !.listed = Len(file_list), !.probed = 1,
                                    !.s_start = SceneRange(blend)[1],
                                    !.s_end = SceneRange(blend)[2],
                                    !.existing = existing, !.missing = missing,
                                    !.v = v, !.cs = cs, !.chunks = chunks,
                                    !.active = active, !.jobs = jobs]
    /\ UNCHANGED <<file_list, clients, out_dir, current_blend_file, stop_flag, threads,
                   local_worker, pure_vars, up_vars>>

DispatchNext ==
    \/ \E v \in ChunkInputs : DispatchJobs(v)
    \/ \E f \in Scenes : AddFile(f)
    \/ RemoveSelected
    \/ \E ip \in Ips : DiscoverReply(ip)
    \/ \E ip \in Ips, val \in BOOLEAN : SetClientSelected(ip, val)

\* when the coordinator starts, the output directory of scene "a" holds any
\* frames of an earlier run and scene "b" has no output directory yet
Init ==
    /\ RaIdle
    /\ PlIdle
    /\ CoStart
    /\ out_dir \in {[d \in Dirs |-> IF d = "a" THEN F ELSE {}] : F \in SUBSET Frames}
    /\ UpIdle /\ FnIdle
Spec == Init /\ [][Next]_vars

RangesInit == RaInput /\ PlIdle /\ CoIdle /\ UpIdle /\ FnIdle
SpecRanges == RangesInit /\ [][RaNext]_vars

PlanInit == PlInput /\ RaIdle /\ CoIdle /\ UpIdle /\ FnIdle
SpecPlan == PlanInit /\ [][PlNext]_vars

\* A LocalChunksWorker constructed on the chunks of a plan and started, as the
\* local-run block of start_render constructs it: the thread with its renderer
\* subprocesses, and stop_render beside it.
WorkerPlans(blend) ==
    {BuildPlan(MissingFrames(SceneRange(blend)[1], SceneRange(blend)[2], ex), cs) :
        ex \in SUBSET FullRange(blend), cs \in 1..MaxChunk} \ {<<>>}
WorkerInit ==
    /\ RaIdle /\ PlIdle /\ UpIdle /\ FnIdle
    /\ file_list = <<>> /\ clients = <<>> /\ current_blend_file = None
    /\ sent_jobs = <<>> /\ call = NoCall
    /\ stop_flag = FALSE
    /\ local_worker = 1
    /\ \E blend \in Scenes : \E chunks \in WorkerPlans(blend) :
          /\ threads = <<NewThread(blend, RenderDir(blend), chunks)>>
          /\ out_dir = [d \in Dirs |-> IF d = RenderDir(blend)
                                       THEN FullRange(blend) \ UnionOfRanges(chunks)
                                       ELSE {}]
WorkerNext ==
    \/ StopRender
    \/ \E t \in 1..Len(threads) : WorkerLoop(t)
    \/ \E t \in 1..Len(threads) : WorkerReads(t)
    \/ \E t \in 1..Len(threads) : RendererSaves(t)
    \/ \E t \in 1..Len(threads), code \in {0, 1} : RendererExits(t, code)
    \/ \E t \in 1..Len(threads) : WorkerSeesStop(t)
    \/ \E t \in 1..Len(threads) : \E c \in threads[t].live : RendererGone(t, c)
SpecWorker == WorkerInit /\ [][WorkerNext]_vars
\* the worker thread takes every step it can take; the renderer prints and
\* exits when it does
WorkerSteps ==
    \E t \in 1..Len(threads) : WorkerLoop(t) \/ WorkerReads(t) \/ WorkerSeesStop(t)
SpecWorkerLive == WorkerInit /\ [][WorkerNext]_vars /\ WF_vars(WorkerSteps)

\* The local-run block of start_render, from stop_flag.clear() on, for a call
\* that reached it with local_chunks as the local slot's chunks of blend.
LocalRun(blend, local_chunks) ==
    LET alive == LocalWorkerAlive
        running == SelectSeq(threads, LAMBDA th : th.pc # "dead")
    IN
    /\ stop_flag' = FALSE
    /\ IF alive
       THEN /\ call' = [call EXCEPT
                          !.alive = TRUE, !.started = FALSE,
                          !.cleared = @ \/ stop_flag,
                          !.launched = IF call.cleared \/ ~stop_flag THEN @
                                       ELSE Len(threads[local_worker].launched)]
            /\ UNCHANGED <<threads, local_worker>>
       ELSE IF local_chunks # <<>>
       THEN /\ call' = [call EXCEPT !.alive = FALSE, !.started = TRUE,
                                    !.cleared = FALSE, !.launched = 0]
            /\ threads' = Append(running, NewThread(blend, RenderDir(blend), local_chunks))
            /\ local_worker' = Len(running) + 1
       ELSE /\ call' = [call EXCEPT !.alive = FALSE, !.started = FALSE]
            /\ UNCHANGED <<threads, local_worker>>
    /\ UNCHANGED <<file_list, clients, out_dir, current_blend_file, sent_jobs,
                   pure_vars, up_vars>>
StartAgain ==
    \E blend \in Scenes : \E local_chunks \in WorkerPlans(blend) \cup {<<>>} :
        LocalRun(blend, local_chunks)
RestartNext ==
    \/ StopRender
    \/ StartAgain
    \/ \E t \in 1..Len(threads) : WorkerLoop(t)
    \/ \E t \in 1..Len(threads) : WorkerReads(t)
    \/ \E t \in 1..Len(threads) : RendererSaves(t)
    \/ \E t \in 1..Len(threads), code \in {0, 1} : RendererExits(t, code)
    \/ \E t \in 1..Len(threads) : WorkerSeesStop(t)
    \/ \E t \in 1..Len(threads) : \E c \in threads[t].live : RendererGone(t, c)
SpecRestart == WorkerInit /\ [][RestartNext]_vars

UpWireInit == RaIdle /\ PlIdle /\ CoIdle /\ UpIdle /\ WiInput /\ JwIdle /\ PgIdle /\ SgIdle /\ DpIdle /\ DcIdle /\ RsIdle /\ GuIdle /\ PtIdle /\ JsIdle
SpecUploadWire == UpWireInit /\ [][UpWireNext]_vars

DispatchInit == Init
SpecDispatch == DispatchInit /\ [][DispatchNext]_vars

DiscoveryInit == RaIdle /\ PlIdle /\ CoIdle /\ UpIdle /\ WiIdle /\ JwIdle /\ PgIdle /\ SgIdle /\ DpIdle /\ DcIdle /\ RsIdle /\ GuIdle /\ PtIdle /\ JsIdle
SpecDiscovery == DiscoveryInit /\ [][DiscoveryNext]_vars

\* main(): threading.Thread(target=discovery_loop, daemon=True).start()
DlStarted ==
    /\ rs_pc = "off" /\ rs_iter = [used |-> 0, pos |-> 0] /\ rs_snap = <<>> /\ rs_seen = {}
    /\ dl_pc = "send" /\ dl_log = <<>>
\* ---------------------------------------------------- the standalone GUI
\* blender_render_gui: the Tk thread runs the App's handlers one at a time; a
\* RenderWorker thread runs beside it.  A renderer subprocess is named by the
\* worker, file and chunk it was started for.
NoProc == [w |-> 0, f |-> 0, c |-> 0]
\* RenderWorker.__init__ and start(): files is len(self.files)
NewWorker(id, files) ==
    [id |-> id, files |-> files, f |-> 1, n |-> 0, c |-> 0, pc |-> "file",
     proc |-> NoProc,               \* render_chunk's local proc
     holder |-> NoProc,             \* self.current_proc_holder["proc"]
     finished_naturally |-> FALSE,
     stopped |-> FALSE,             \* stop_immediately() has returned
     late |-> FALSE]                \* a Popen came after that return
\* self.worker and self.worker.is_alive()
AppWorkerAlive == gu_worker # <<>> /\ gu_worker[Len(gu_worker)].pc # "dead"
GuAlive == {i \in 1..Len(gu_worker) : gu_worker[i].pc # "dead"}
SetWorker(i, th) == gu_worker' = [gu_worker EXCEPT ![i] = th]
TkIdle == gu_tk = "idle" /\ ~gu_app.closed

\* an App whose start_render starts a worker whatever runs
StartNeverRefused == FALSE
\* start_render: if self.worker and self.worker.is_alive(): messagebox; return
StartRefused == AppWorkerAlive

\* App.start_render with valid fields and files .blend files in the list
GuStart(files) ==
    /\ TkIdle
    /\ gu_hist.starts < MaxStarts
    /\ IF StartRefused
       THEN /\ gu_hist' = [gu_hist EXCEPT !.starts = @ + 1]
            /\ UNCHANGED <<gu_worker, gu_stop, gu_app>>
       ELSE /\ gu_stop' = FALSE
            /\ gu_app' = [gu_app EXCEPT !.finish_handled = FALSE]
            /\ gu_worker' = Append(SelectSeq(gu_worker, LAMBDA th : th.pc # "dead"),
                                   NewWorker(gu_hist.starts + 1, files))
            /\ gu_hist' = [gu_hist EXCEPT !.starts = @ + 1, !.flagged = FALSE]
    /\ UNCHANGED <<gu_tk, gu_procs, gu_others>>

\* App.stop_render up to stop_immediately's self.stop_flag.set()
GuStopSet ==
    /\ TkIdle
    /\ AppWorkerAlive
    /\ gu_stop' = TRUE
    /\ gu_hist' = [gu_hist EXCEPT !.flagged = TRUE]
    /\ gu_tk' = "stopping"
    /\ UNCHANGED <<gu_worker, gu_procs, gu_app, gu_others>>

\* terminate_proc_tree(proc): taskkill /T /F, or terminate, wait, kill
Killed(proc) == gu_procs \ {proc}

\* stop_immediately: proc = self.current_proc_holder.get("proc"); if proc:
\* terminate_proc_tree(proc, self.log); and the return to stop_render
GuStopKill ==
    LET w == Len(gu_worker) IN
    /\ gu_tk = "stopping"
    /\ gu_procs' = Killed(gu_worker[w].holder)
    /\ SetWorker(w, [gu_worker[w] EXCEPT !.stopped = TRUE])
    /\ gu_tk' = "idle"
    /\ UNCHANGED <<gu_stop, gu_app, gu_hist, gu_others>>

\* App.on_close: stop_flag.set(); worker.stop_immediately() if alive;
\* kill_all_blender(); destroy()
GuClose ==
    /\ TkIdle
    /\ gu_stop' = TRUE
    /\ gu_hist' = [gu_hist EXCEPT !.flagged = TRUE]
    /\ gu_procs' = {}
    /\ gu_worker' = IF AppWorkerAlive
                    THEN [gu_worker EXCEPT ![Len(gu_worker)].stopped = TRUE]
                    ELSE gu_worker
    /\ gu_app' = [gu_app EXCEPT !.closed = TRUE]
    /\ UNCHANGED <<gu_tk, gu_others>>

\* the "shut down after finish" checkbox
GuToggle ==
    /\ TkIdle
    /\ gu_app' = [gu_app EXCEPT !.shutdown_var = ~@]
    /\ UNCHANGED <<gu_worker, gu_stop, gu_tk, gu_procs, gu_hist, gu_others>>

\* App.drain_queues, the turn that finds the worker ended, with
\* schedule_shutdown(seconds=60) when it is called
GuDrain ==
    LET th == gu_worker[Len(gu_worker)]
        asked == th.finished_naturally /\ gu_app.shutdown_var
        begun == asked /\ ~gu_app.shutdown_scheduled
    IN
    /\ TkIdle
    /\ gu_worker # <<>> /\ ~AppWorkerAlive /\ ~gu_app.finish_handled
    /\ gu_app' = [gu_app EXCEPT !.finish_handled = TRUE,
                                !.shutdown_scheduled = @ \/ asked]
    /\ gu_hist' = [gu_hist EXCEPT !.shutdowns = IF begun THEN @ + 1 ELSE @]
    /\ UNCHANGED <<gu_worker, gu_stop, gu_tk, gu_procs, gu_others>>

\* RenderWorker.run: the top of "for blend_path in self.files" down to the
\* chunk loop.  outcome: the file is skipped (not found, probe failed, nothing
\* missing), it has n chunks to render, or an exception reaches the outer except
GuFile(i, outcome, n) ==
    LET th == gu_worker[i] IN
    /\ ~gu_app.closed
    /\ th.pc = "file"
    /\ IF th.f > th.files \/ gu_stop
       THEN outcome = "skip" /\ n = 1 /\ SetWorker(i, [th EXCEPT !.pc = "end"])
       ELSE CASE outcome = "skip" -> n = 1 /\ SetWorker(i, [th EXCEPT !.f = @ + 1])
              [] outcome = "plan" -> SetWorker(i, [th EXCEPT !.pc = "chunk", !.n = n, !.c = 1])
              [] outcome = "fatal" -> n = 1 /\ SetWorker(i, [th EXCEPT !.pc = "exit"])
    /\ UNCHANGED <<gu_stop, gu_tk, gu_procs, gu_app, gu_hist, gu_others>>

\* RenderWorker.run: the top of "for (a, b) in chunked_ranges" and its stop check
GuChunk(i) ==
    LET th == gu_worker[i] IN
    /\ ~gu_app.closed
    /\ th.pc = "chunk"
    /\ SetWorker(i, [th EXCEPT !.pc = IF th.c > th.n \/ gu_stop THEN "after" ELSE "popen"])
    /\ UNCHANGED <<gu_stop, gu_tk, gu_procs, gu_app, gu_hist, gu_others>>

\* render_chunk: proc = subprocess.Popen(args, ...)
GuPopen(i) ==
    LET th == gu_worker[i]
        proc == [w |-> th.id, f |-> th.f, c |-> th.c]
    IN
    /\ ~gu_app.closed
    /\ th.pc = "popen"
    /\ gu_procs' = gu_procs \cup {proc}
    /\ SetWorker(i, [th EXCEPT !.pc = "hold", !.proc = proc, !.late = th.stopped])
    /\ UNCHANGED <<gu_stop, gu_tk, gu_app, gu_hist, gu_others>>

\* render_chunk: current_proc_holder["proc"] = proc
GuHold(i) ==
    LET th == gu_worker[i] IN
    /\ ~gu_app.closed
    /\ th.pc = "hold"
    /\ SetWorker(i, [th EXCEPT !.pc = "loop", !.holder = th.proc])
    /\ UNCHANGED <<gu_stop, gu_tk, gu_procs, gu_app, gu_hist, gu_others>>

\* render_chunk: the stop check at the top of the read loop.  With the flag
\* set: terminate_proc_tree(proc), return through the finally, and run()
\* breaks out of the chunk loop; else proc.stdout.readline()
GuLoop(i) ==
    LET th == gu_worker[i] IN
    /\ ~gu_app.closed
    /\ th.pc = "loop"
    /\ IF gu_stop
       THEN /\ gu_procs' = Killed(th.proc)
            /\ SetWorker(i, [th EXCEPT !.pc = "after", !.proc = NoProc, !.holder = NoProc])
       ELSE /\ SetWorker(i, [th EXCEPT !.pc = "read"])
            /\ UNCHANGED gu_procs
    /\ UNCHANGED <<gu_stop, gu_tk, gu_app, gu_hist, gu_others>>

\* the renderer prints a line and readline returns it
GuLine(i) ==
    LET th == gu_worker[i] IN
    /\ ~gu_app.closed
    /\ th.pc = "read"
    /\ th.proc \in gu_procs
    /\ SetWorker(i, [th EXCEPT !.pc = "loop"])
    /\ UNCHANGED <<gu_stop, gu_tk, gu_procs, gu_app, gu_hist, gu_others>>

\* the renderer of worker i exits by itself
GuRendererExits(i) ==
    /\ ~gu_app.closed
    /\ gu_worker[i].proc \in gu_procs
    /\ gu_procs' = gu_procs \ {gu_worker[i].proc}
    /\ UNCHANGED <<gu_worker, gu_stop, gu_tk, gu_app, gu_hist, gu_others>>

\* render_chunk: readline returns "" with the process gone; proc.wait(), the
\* RuntimeError for a non-zero code with the flag clear, the finally; then
\* run(): break when the flag is set, else the next chunk
GuEof(i) ==
    LET th == gu_worker[i] IN
    /\ ~gu_app.closed
    /\ th.pc = "read"
    /\ th.proc \notin gu_procs
    /\ SetWorker(i, IF gu_stop
                    THEN [th EXCEPT !.pc = "after", !.proc = NoProc, !.holder = NoProc]
                    ELSE [th EXCEPT !.pc = "chunk", !.c = @ + 1,
                                    !.proc = NoProc, !.holder = NoProc])
    /\ UNCHANGED <<gu_stop, gu_tk, gu_procs, gu_app, gu_hist, gu_others>>

\* RenderWorker.run, after the chunk loop: if self.stop_flag.is_set(): break
GuAfter(i) ==
    LET th == gu_worker[i] IN
    /\ ~gu_app.closed
    /\ th.pc = "after"
    /\ SetWorker(i, IF gu_stop THEN [th EXCEPT !.pc = "end"]
                    ELSE [th EXCEPT !.pc = "file", !.f = @ + 1])
    /\ UNCHANGED <<gu_stop, gu_tk, gu_procs, gu_app, gu_hist, gu_others>>

\* RenderWorker.run, after the file loop: if not self.stop_flag.is_set():
\* self.finished_naturally = True
GuEnd(i) ==
    LET th == gu_worker[i] IN
    /\ ~gu_app.closed
    /\ th.pc = "end"
    /\ SetWorker(i, [th EXCEPT !.pc = "exit", !.finished_naturally = ~gu_stop])
    /\ UNCHANGED <<gu_stop, gu_tk, gu_procs, gu_app, gu_hist, gu_others>>

\* run() returns: is_alive() is False from here on
GuReturn(i) ==
    LET th == gu_worker[i] IN
    /\ ~gu_app.closed
    /\ th.pc = "exit"
    /\ SetWorker(i, [th EXCEPT !.pc = "dead"])
    /\ UNCHANGED <<gu_stop, gu_tk, gu_procs, gu_app, gu_hist, gu_others>>

GuiNext ==
    \/ \E files \in 1..MaxFiles : GuStart(files)
    \/ GuStopSet
    \/ GuStopKill
    \/ GuClose
    \/ GuToggle
    \/ GuDrain
    \/ \E i \in 1..Len(gu_worker), outcome \in {"skip", "plan", "fatal"}, n \in 1..MaxChunk :
          GuFile(i, outcome, n)
    \/ \E i \in 1..Len(gu_worker) : GuChunk(i)
    \/ \E i \in 1..Len(gu_worker) : GuPopen(i)
    \/ \E i \in 1..Len(gu_worker) : GuHold(i)
    \/ \E i \in 1..Len(gu_worker) : GuLoop(i)
    \/ \E i \in 1..Len(gu_worker) : GuLine(i)
    \/ \E i \in 1..Len(gu_worker) : GuRendererExits(i)
    \/ \E i \in 1..Len(gu_worker) : GuEof(i)
    \/ \E i \in 1..Len(gu_worker) : GuAfter(i)
    \/ \E i \in 1..Len(gu_worker) : GuEnd(i)
    \/ \E i \in 1..Len(gu_worker) : GuReturn(i)
\* App.__init__: no worker, the flag clear, nothing scheduled
GuReady ==
    /\ gu_worker = <<>> /\ gu_stop = FALSE /\ gu_tk = "idle" /\ gu_procs = {}
    /\ gu_app = NoApp /\ gu_hist = NoHist
GuiInit ==
    /\ RaIdle /\ PlIdle /\ CoIdle /\ UpIdle /\ WiIdle /\ JwIdle /\ PgIdle /\ SgIdle /\ DpIdle
    /\ DcIdle /\ RsIdle /\ GuReady /\ PtIdle /\ JsIdle
SpecGui == GuiInit /\ [][GuiNext]_vars

\* ------------------------------------------------------------------ paths
\* A path is its sequence of components; Root first makes it absolute.  The
\* names of a header are any such sequence: JSON text puts no limit on them.
Root == "/"
Up == ".."
PathParts == {"x", Up}
RelNames == UNION {[1..n -> PathParts] : n \in 0..MaxPath}
Names == RelNames \cup {<<Root>> \o p : p \in RelNames}
\* the process's working directory, and get_render_dir() (already resolved)
Cwd == <<Root, "w">>
RenderDirPath == <<Root, "out", "a">>

\* PurePath.__truediv__: an absolute right operand replaces the left one
joinpath(a, b) == IF b # <<>> /\ b[1] = Root THEN b ELSE a \o b
\* PurePath.parent
parent(path) == IF Len(path) <= 1 THEN path ELSE SubSeq(path, 1, Len(path) - 1)
\* the file the operating system reaches by path: relative paths start at the
\* working directory, ".." steps to the parent and stays at the root
RECURSIVE Walk(_, _)
Walk(at, path) ==
    IF path = <<>> THEN at
    ELSE Walk(IF Head(path) = Up THEN parent(at) ELSE Append(at, Head(path)), Tail(path))
Reached(path) ==
    IF path # <<>> /\ path[1] = Root THEN Walk(<<Root>>, Tail(path)) ELSE Walk(Cwd, path)
\* the directories on the way to a reached file, itself included
Ancestors(at) == {SubSeq(at, 1, n) : n \in 1..Len(at)}
\* Path.mkdir(parents=True, exist_ok=True)
mkdir(dirs, path) == dirs \cup Ancestors(Reached(path))
\* open(path, "wb"): the file reached, unless that is a directory or its
\* directory does not exist (IsADirectoryError, FileNotFoundError)
OpenedWb(dirs, path) ==
    LET at == Reached(path) IN
    IF at \in dirs \/ parent(at) \notin dirs THEN {} ELSE {at}
Inside(at, dir) == Len(at) > Len(dir) /\ SubSeq(at, 1, Len(dir)) = dir

\* start_upload_server.server: out_path = render_dir / filename;
\* out_path.parent.mkdir(parents=True, exist_ok=True); open(out_path, "wb")
PtUpload ==
    LET filename == pt_in.names[1]
        out_path == joinpath(RenderDirPath, filename)
        dirs == mkdir(Ancestors(RenderDirPath) \cup Ancestors(Cwd), parent(out_path))
    IN
    /\ pt_pc = "header"
    /\ pt_in.op = "upload"
    /\ pt_pc' = "done"
    /\ pt_out' = [dir |-> RenderDirPath, files |-> OpenedWb(dirs, out_path)]
    /\ UNCHANGED <<pt_in, pt_others>>

\* start_job_server.server: job_dir = Path("jobs") / job_id; job_dir.mkdir(...);
\* blend_path = job_dir / blend_name; open(blend_path, "wb"); for dep_rel in
\* deps: dep_path = job_dir / dep_rel; dep_path.parent.mkdir(...); open(dep_path, "wb")
PtJob ==
    LET job == pt_in.names[1]
        blend_name == pt_in.names[2]
        dep_rel == pt_in.names[3]
        job_dir == joinpath(<<"jobs">>, job)
        dirs == mkdir(Ancestors(Cwd), job_dir)
        blend_path == joinpath(job_dir, blend_name)
        blend == OpenedWb(dirs, blend_path)
        dep_path == joinpath(job_dir, dep_rel)
        \* a blend that cannot be opened raises before any dependency is read
        \* nor is one opened below the blend file (mkdir raises FileExistsError)
        deps == IF blend = {} \/ blend \cap Ancestors(Reached(parent(dep_path))) # {}
                THEN {}
                ELSE OpenedWb(mkdir(dirs, parent(dep_path)), dep_path)
    IN
    /\ pt_pc = "header"
    /\ pt_in.op = "job"
    /\ pt_pc' = "done"
    /\ pt_out' = [dir |-> Reached(job_dir), files |-> blend \cup deps]
    /\ UNCHANGED <<pt_in, pt_others>>

PathsNext ==
    \/ PtUpload
    \/ PtJob
\* the header of an upload names a file; the header of a job names the job, the
\* scene file and a dependency
Headers ==
    {[op |-> "upload", names |-> <<filename>>] : filename \in Names}
    \cup {[op |-> "job", names |-> <<job, blend_name, dep_rel>>] :
            job \in Names, blend_name \in Names, dep_rel \in Names}
PathsInit ==
    /\ RaIdle /\ PlIdle /\ CoIdle /\ UpIdle /\ WiIdle /\ JwIdle /\ PgIdle /\ SgIdle /\ DpIdle
    /\ DcIdle /\ RsIdle /\ GuIdle /\ JsIdle
    /\ pt_pc = "header" /\ pt_in \in Headers /\ pt_out = NoWrites
SpecPaths == PathsInit /\ [][PathsNext]_vars

DiscoveryLoopInit ==
    /\ RaIdle /\ PlIdle /\ CoIdle /\ UpIdle /\ WiIdle /\ JwIdle /\ PgIdle /\ SgIdle /\ DpIdle
    /\ DcIdle /\ DlStarted /\ GuIdle /\ PtIdle /\ JsIdle
SpecDiscoveryLoop == DiscoveryLoopInit /\ [][DiscoveryLoopNext]_vars

\* the coordinator's window is up, no worker has answered yet
RsReady ==
    /\ rs_pc = "idle" /\ rs_iter = [used |-> 0, pos |-> 0] /\ rs_snap = <<>> /\ rs_seen = {}
    /\ dl_pc = "off" /\ dl_log = <<>>
RosterInit ==
    /\ RaIdle /\ PlIdle /\ CoIdle /\ UpIdle /\ WiIdle /\ JwIdle /\ PgIdle /\ SgIdle /\ DpIdle
    /\ DcIdle /\ RsReady /\ GuIdle /\ PtIdle /\ JsIdle
SpecRoster == RosterInit /\ [][RosterNext]_vars

UpWireCutInit == RaIdle /\ PlIdle /\ CoIdle /\ UpIdle /\ WiCutInput /\ JwIdle /\ PgIdle /\ SgIdle /\ DpIdle /\ DcIdle /\ RsIdle /\ GuIdle /\ PtIdle /\ JsIdle
SpecUploadCut == UpWireCutInit /\ [][UpWireNext]_vars

JobWireInit == RaIdle /\ PlIdle /\ CoIdle /\ UpIdle /\ WiIdle /\ JwInput /\ PgIdle /\ SgIdle /\ DpIdle /\ DcIdle /\ RsIdle /\ GuIdle /\ PtIdle /\ JsIdle
SpecJobWire == JobWireInit /\ [][JobWireNext]_vars
\* the job server has accepted a connection
JsStaging ==
    /\ js_pc = "stage" /\ js_conn = "open" /\ js_proc = 0 /\ js_log = <<>>
    /\ js_job = NoServed /\ js_dirs = <<>> /\ js_wait = <<>> /\ js_sent = <<>>
    /\ UsIdle
JobCutInit == RaIdle /\ PlIdle /\ CoIdle /\ UpIdle /\ WiIdle /\ JwCutInput /\ PgIdle /\ SgIdle /\ DpIdle /\ DcIdle /\ RsIdle /\ GuIdle /\ PtIdle /\ JsStaging
SpecJobCut == JobCutInit /\ [][JobCutNext]_vars

\* ------------------------------------- the two listeners, connection by connection
\* what the peer of a job connection does: it sends a whole job, closes without
\* a byte, closes inside the header or inside a size field, sends a text that
\* is not JSON, or sends a job the worker's disk cannot hold
JobPeers == {"whole", "silent", "cut_header", "not_json", "cut_size", "disk_full"}
JobCmds == {"render", "status"}
Request(peer, cmd, a, b) ==
    [peer |-> peer, cmd |-> cmd, id |-> job_id("a", a, b), start |-> a, end |-> b]
PeerRequests ==
    {Request(peer, "render", 1, 1) : peer \in JobPeers}
      \cup {Request("whole", cmd, 1, 1) : cmd \in JobCmds}
Requests ==
    {Request("whole", "render", r[1], r[2]) : r \in {x \in Frames \X Frames : x[1] <= x[2]}}
      \cup PeerRequests
JobIds == {r.id : r \in Requests}

\* a peer connects to JOB_PORT: the connection waits in the listen queue
JsConnect(r) ==
    /\ js_pc # "off"
    /\ js_job.n + Len(js_wait) < MaxServed
    /\ Len(js_wait) < MaxPending
    /\ js_wait' = Append(js_wait, r)
    /\ UNCHANGED <<js_pc, js_conn, js_proc, js_log, js_job, js_dirs, js_sent, us_vars, js_others>>

\* a job server that hands every connection to a thread of its own
AcceptingAlways == js_pc \notin {"off", "dead"}
\* the one thread of server() is at sock.accept()
Accepting == js_pc = "accept"

\* conn, addr = sock.accept()
JsAccept ==
    /\ Accepting
    /\ js_wait # <<>>
    /\ LET r == Head(js_wait)
       IN js_job' = [n |-> js_job.n + 1, cmd |-> r.cmd, id |-> r.id, peer |-> r.peer,
                     start |-> r.start, end |-> r.end, cur |-> r.start, todo |-> <<>>]
    /\ js_wait' = Tail(js_wait)
    /\ js_conn' = "open" /\ js_pc' = "stage" /\ js_sent' = <<>>
    /\ UNCHANGED <<js_proc, js_log, js_dirs, us_vars, js_others>>

\* the try block up to conn.close(): the header, the cmd test, the header's
\* fields, job_dir, the scene and the dependencies
JsStage ==
    /\ js_pc = "stage"
    /\ CASE js_job.peer = "silent" ->
              js_conn' = "closed" /\ js_pc' = "accept" /\ UNCHANGED js_log
         [] js_job.peer = "cut_header" -> JsRaised("AttributeError", <<>>)
         [] js_job.peer = "not_json" -> JsRaised("ValueError", <<>>)
         [] js_job.peer \in {"whole", "cut_size", "disk_full"} /\ js_job.cmd # "render" ->
              /\ js_log' = Append(js_log, "Unknown cmd")
              /\ js_conn' = "closed" /\ js_pc' = "accept"
         [] js_job.peer = "cut_size" /\ js_job.cmd = "render" -> JsRaised("TypeError", <<>>)
         [] js_job.peer = "disk_full" /\ js_job.cmd = "render" -> JsRaised("OSError", <<>>)
         [] js_job.peer = "whole" /\ js_job.cmd = "render" ->
              /\ js_log' = Append(js_log, "Received")
              /\ js_conn' = ConnClosed /\ js_pc' = "launch"
    /\ UNCHANGED <<js_proc, js_job, js_dirs, js_wait, js_sent, us_vars, js_others>>

\* the renderer saves its next frame under frames/ and prints Saved:; the job
\* server lists frames/ and calls send_frame on the last path of the listing
JsSaved ==
    /\ js_pc = "stream"
    /\ js_job.cur <= js_job.end
    /\ LET listing == js_dirs[js_job.id] \cup {js_job.cur}
       IN /\ js_dirs' = [js_dirs EXCEPT ![js_job.id] = listing]
          /\ js_sent' = Append(js_sent, [file |-> LastSorted(listing), saved |-> js_job.cur])
    /\ js_job' = [js_job EXCEPT !.cur = @ + 1]
    /\ UNCHANGED <<js_pc, js_conn, js_proc, js_log, js_wait, us_vars, js_others>>

\* a job server that sweeps only behind a renderer that exited with 0
SweepsIfClean(code) == code = 0
\* the sweep follows proc.wait() whatever it returned
Sweeps(code) == TRUE

\* the renderer exits, with 0 after its last frame or with another code at any
\* moment: code = proc.wait(), the log, and the listing of the safety sweep
JsExit(code) ==
    /\ js_pc = "stream"
    /\ code = 0 => js_job.cur > js_job.end
    /\ js_proc' = js_proc - 1
    /\ js_log' = Append(js_log, "Blender exited")
    /\ js_job' = [js_job EXCEPT !.todo = IF Sweeps(code)
                                         THEN AscendingSeq(1, MaxFrame, js_dirs[js_job.id])
                                         ELSE <<>>]
    /\ js_pc' = "sweep"
    /\ UNCHANGED <<js_conn, js_dirs, js_wait, js_sent, us_vars, js_others>>

\* for img in sorted(frames_dir.iterdir()): send_frame(...); after the last
\* one, finally: conn.close() and the next accept
JsSweep ==
    /\ js_pc = "sweep"
    /\ IF js_job.todo = <<>>
       THEN js_pc' = "accept" /\ js_conn' = "closed" /\ UNCHANGED <<js_job, js_sent>>
       ELSE /\ js_sent' = Append(js_sent, [file |-> Head(js_job.todo), saved |-> 0])
            /\ js_job' = [js_job EXCEPT !.todo = Tail(@)]
            /\ UNCHANGED <<js_pc, js_conn>>
    /\ UNCHANGED <<js_proc, js_log, js_dirs, js_wait, us_vars, js_others>>

\* what the peer of an upload connection does
UploadPeers == {"whole", "silent", "cut_len", "not_json", "no_frame", "cut_size", "cut_body", "no_dir"}

\* conn, addr = srv.accept()
UsAccept(peer) ==
    /\ us_pc = "accept"
    /\ us_conn.n < MaxUploads
    /\ us_conn' = [state |-> "open", peer |-> peer, n |-> us_conn.n + 1]
    /\ us_pc' = "handle"
    /\ UNCHANGED <<us_log, js_pc, js_conn, js_proc, js_log, js_job, js_dirs, js_wait, js_sent,
                   js_others>>

\* e is raised inside the try of the upload server: except Exception logs
\* "[ERROR] Frame upload", finally closes conn
UsRaised(e) ==
    /\ us_conn' = [us_conn EXCEPT !.state = "closed"]
    /\ IF ExceptException(e)
       THEN us_log' = Append(us_log, "Frame upload error") /\ us_pc' = "accept"
       ELSE us_pc' = "dead" /\ UNCHANGED us_log

\* the try block of the upload server, and its finally
UsHandle ==
    /\ us_pc = "handle"
    /\ CASE us_conn.peer = "silent" ->
              /\ us_conn' = [us_conn EXCEPT !.state = "closed"]
              /\ us_pc' = "accept" /\ UNCHANGED us_log
         [] us_conn.peer \in {"cut_len", "cut_size"} -> UsRaised("struct.error")
         [] us_conn.peer = "not_json" -> UsRaised("ValueError")
         [] us_conn.peer = "no_frame" -> UsRaised("KeyError")
         [] us_conn.peer = "no_dir" -> UsRaised("OSError")
         [] us_conn.peer \in {"whole", "cut_body"} ->
              /\ us_conn' = [us_conn EXCEPT !.state = "closed"]
              /\ us_log' = Append(us_log, "Received frame")
              /\ us_pc' = "accept"
    /\ UNCHANGED <<js_pc, js_conn, js_proc, js_log, js_job, js_dirs, js_wait, js_sent, js_others>>

\* a worker's job server and the jobs it is sent
ServeNext ==
    \/ \E r \in Requests : JsConnect(r)
    \/ JsAccept
    \/ JsStage
    \/ \E ok \in BOOLEAN : JwPopen(ok)
    \/ JsSaved
    \/ \E code \in {0, 1} : JsExit(code)
    \/ JsSweep

\* the job server and the upload server, each with every kind of peer
ListenNext ==
    \/ \E r \in PeerRequests : JsConnect(r)
    \/ JsAccept
    \/ JsStage
    \/ \E ok \in BOOLEAN : JwPopen(ok)
    \/ JsSaved
    \/ \E code \in {0, 1} : JsExit(code)
    \/ JsSweep
    \/ \E peer \in UploadPeers : UsAccept(peer)
    \/ UsHandle

\* the job server at accept, the worker's jobs directory empty
JsListening ==
    /\ js_pc = "accept" /\ js_conn = "none" /\ js_proc = 0 /\ js_log = <<>>
    /\ js_job = NoServed
    /\ js_dirs = [id \in JobIds |-> {}] /\ js_wait = <<>> /\ js_sent = <<>>
\* the upload server at accept
UsListening == us_pc = "accept" /\ us_conn = NoPeer /\ us_log = <<>>
ServeInit == RaIdle /\ PlIdle /\ CoIdle /\ UpIdle /\ WiIdle /\ JwIdle /\ PgIdle /\ SgIdle /\ DpIdle /\ DcIdle /\ RsIdle /\ GuIdle /\ PtIdle /\ JsListening /\ UsIdle
SpecServe == ServeInit /\ [][ServeNext]_vars
ListenInit == RaIdle /\ PlIdle /\ CoIdle /\ UpIdle /\ WiIdle /\ JwIdle /\ PgIdle /\ SgIdle /\ DpIdle /\ DcIdle /\ RsIdle /\ GuIdle /\ PtIdle /\ JsListening /\ UsListening
SpecListen == ListenInit /\ [][ListenNext]_vars

SplitNext == SgFor \/ SgYield \/ SgEndWhile \/ SgReturn
SplitInit == RaIdle /\ PlIdle /\ CoIdle /\ UpIdle /\ WiIdle /\ JwIdle /\ PgIdle /\ SgInput /\ DpIdle /\ DcIdle /\ RsIdle /\ GuIdle /\ PtIdle /\ JsIdle

DepsInit == RaIdle /\ PlIdle /\ CoIdle /\ UpIdle /\ WiIdle /\ JwIdle /\ PgIdle /\ SgIdle /\ DpInput /\ DcIdle /\ RsIdle /\ GuIdle /\ PtIdle /\ JsIdle
SpecDeps == DepsInit /\ [][DepsNext]_vars
SpecSplit == SplitInit /\ [][SplitNext]_vars

ProgressInit == RaIdle /\ PlIdle /\ CoIdle /\ UpIdle /\ FnIdle
SpecProgress == ProgressInit /\ [][ProgressNext]_vars

\* stop_render beside the workers' jobs and the upload server.  The coordinator
\* has either no local worker or a LocalChunksWorker that is alive.
CancelInit ==
    /\ RaIdle /\ PlIdle /\ UpIdle /\ FnIdle
    /\ file_list = <<>> /\ clients = <<>> /\ current_blend_file = None
    /\ sent_jobs = <<>> /\ call = NoCall
    /\ stop_flag = FALSE
    /\ out_dir = [d \in Dirs |-> {}]
    /\ \/ threads = <<>> /\ local_worker = 0
       \/ /\ local_worker = 1
          /\ \E blend \in Scenes : \E chunks \in WorkerPlans(blend) :
                threads = <<NewThread(blend, RenderDir(blend), chunks)>>
CancelNext ==
    \/ StopRender
    \/ \E file \in Scenes, a \in Frames, b \in Frames : a <= b /\ JobArrives(file, a, b)
    \/ WkSaves
    \/ WkExits
    \/ WkSafety
    \/ UploadServe
SpecCancel == CancelInit /\ [][CancelNext]_vars

UploadInit == RaIdle /\ PlIdle /\ CoIdle /\ UpIdle /\ FnIdle
SpecUpload == UploadInit /\ [][UpNext]_vars

\* ================================================================ claims
\* ranges (a, b) with a <= b, listed in strictly ascending order without overlap
WellFormed(rs) ==
    /\ \A i \in 1..Len(rs) : rs[i][1] <= rs[i][2]
    /\ \A i \in 1..(Len(rs) - 1) : rs[i][2] < rs[i + 1][1]

\* C1: for every scene range, every set of existing frames and every chunk size
\* field, the plan start_render builds consists of ranges (a, b) with a <= b and
\* b - a + 1 <= cs (cs >= 1), pairwise disjoint and strictly ascending, whose
\* union is exactly {first..last} minus the existing frames.
C1_PlanCoversMissing ==
    pl_pc \in {"no_missing", "planned"} =>
        /\ ChunkSize(pl_v) >= 1
        /\ WellFormed(pl_chunks)
        /\ \A i \in 1..Len(pl_chunks) :
              pl_chunks[i][2] - pl_chunks[i][1] + 1 <= ChunkSize(pl_v)
        /\ UnionOfRanges(pl_chunks) = (pl_first..pl_last) \ pl_existing

\* a plan with a gap in the missing frames and a range cut by the chunk size
C1_Witness ==
    /\ pl_pc = "planned"
    /\ Len(pl_chunks) >= 3
    /\ pl_existing \cap (pl_first..pl_last) # {}
    /\ ChunkSize(pl_v) = 2
    /\ \E i \in 1..Len(pl_chunks) : pl_chunks[i][2] - pl_chunks[i][1] + 1 = 2
    /\ \E i \in 1..Len(pl_chunks) : pl_chunks[i][2] = pl_chunks[i][1]

\* C2: for every strictly increasing list, contiguous_ranges yields ascending,
\* pairwise disjoint ranges, each a maximal run of consecutive integers (the
\* next range starts above the previous end + 1), whose union is the input set;
\* the empty list yields no range.
C2_ContiguousRanges ==
    ra_pc \in {"ranges", "chunks"} =>
        /\ \A i \in 1..Len(ra_ranges) : ra_ranges[i][1] <= ra_ranges[i][2]
        /\ \A i \in 1..(Len(ra_ranges) - 1) : ra_ranges[i][2] + 1 < ra_ranges[i + 1][1]
        /\ UnionOfRanges(ra_ranges) = SeqSet(ra_xs)
        /\ ra_xs = <<>> => ra_ranges = <<>>

\* an input with a run of three, a gap and a single value
C2_Witness ==
    /\ ra_pc = "ranges"
    /\ Len(ra_ranges) = 2
    /\ ra_ranges[1][2] - ra_ranges[1][1] = 2
    /\ ra_ranges[2][1] = ra_ranges[2][2]
\* the chunks the round-robin rule gives roster member j of k (1-based j):
\* chunk i (0-based) goes to member i mod k
RECURSIVE ShareFrom(_, _, _, _)
ShareFrom(chunks, i, j, k) ==
    IF i > Len(chunks) THEN <<>>
    ELSE (IF ((i - 1) % k) + 1 = j THEN <<chunks[i]>> ELSE <<>>)
         \o ShareFrom(chunks, i + 1, j, k)
Share(chunks, j, k) == ShareFrom(chunks, 1, j, k)

\* a start_render call that found missing frames and built a plan
Planned == call.outcome \in {"raised", "raised_local", "complete"}

\* C3: with the roster [local] + selected clients (size k) and a plan of n
\* chunks, chunk i is assigned to roster member i mod k: the local slot gets
\* chunks 0, k, 2k, ... and every member gets ceil(n/k) or floor(n/k) chunks.
C3_RoundRobin ==
    Planned =>
        LET roster == Roster(call.active)
            k == Len(roster)
            n == Len(call.chunks)
        IN \A j \in 1..k :
              /\ roster[j] \in DOMAIN call.assignments
              /\ call.assignments[roster[j]] = Share(call.chunks, j, k)
              /\ Len(call.assignments[roster[j]]) \in {n \div k, (n + k - 1) \div k}

\* C4: every selected client that the assignment gives at least one chunk is
\* sent exactly one job, with start = the minimum chunk start and end = the
\* maximum chunk end of its chunks; a client without chunks is sent no job.
C4_OneSpanningJobPerClient ==
    Planned =>
        LET roster == Roster(call.active)
            k == Len(roster)
        IN \A j \in 2..k :
              LET mine == Share(call.chunks, j, k)
                  sent == SelectSeq(call.jobs, LAMBDA job : job.ip = roster[j])
              IN IF mine = <<>> THEN sent = <<>>
                 ELSE /\ Len(sent) = 1
                      /\ \A i \in 1..Len(mine) :
                            sent[1].start <= mine[i][1] /\ mine[i][2] <= sent[1].end
                      /\ \E i \in 1..Len(mine) : sent[1].start = mine[i][1]
                      /\ \E i \in 1..Len(mine) : sent[1].end = mine[i][2]

\* C9: when the output directory already holds every frame of [first, last]
\* at the time start_render lists it, the call reports that no frames are
\* missing, starts no local worker, launches no renderer and sends no job.
C9_CompleteSceneNoLaunch ==
    (/\ call.outcome \in {"no_missing", "raised", "raised_local", "complete"}
     /\ FullRange(call.scene) \subseteq call.existing)
    => /\ call.outcome = "no_missing"
       /\ ~call.started
       /\ call.jobs = <<>>
       /\ threads = <<>>
       /\ sent_jobs = <<>>

\* a call on scene "a" whose directory already held every frame of its range
C9_Witness ==
    /\ call.outcome = "no_missing"
    /\ call.scene = "a"
    /\ call.existing = FullRange("a")

\* C10: whenever start_render finds missing frames and no local worker is
\* running, it starts a local worker on the local slot's chunks against the
\* scene's output directory and one send_job per selected client with chunks,
\* and the call reaches the end of distribution.
C10_DistributionCompletes ==
    (Planned /\ ~call.alive) =>
        LET roster == Roster(call.active)
            k == Len(roster)
        IN /\ call.outcome = "complete"
           /\ call.started
           /\ call.assignments["local"] = Share(call.chunks, 1, k)
           /\ threads[local_worker].render_dir = RenderDir(call.scene)
           /\ \A j \in 2..k :
                 Share(call.chunks, j, k) # <<>>
                 => \E i \in 1..Len(call.jobs) : call.jobs[i].ip = roster[j]

\* C7: every file the upload server writes lands in the output directory of
\* the scene of the job whose worker uploaded it, whatever session the
\* coordinator has started since the job was handed out.  Stated for the
\* writes made while the coordinator has a current scene.
C7_UploadLandsInJobSceneDir ==
    (up_last # NoUpload /\ up_last.dir # Renders)
    => up_last.dir = RenderDir(up_last.job)

\* C11: for every image send_frame uploads and every way TCP splits the bytes
\* into recv results, when the upload server is through with the connection
\* the file at out_path holds exactly the bytes sent under the name sent, and
\* the frame number and filename it read are those of the header.
C11_UploadByteIdentical ==
    wi_pc \in {"done", "error", "closed"}
    => /\ wi_file = wi_sent
       /\ wi_hdr = [frame |-> IntOf(wi_sent.name), filename |-> wi_sent.name]

InvalidChunk(v) == v.kind = "text" \/ (v.kind = "int" /\ v.val < 1)

\* C14: a start_render call that reads a non-positive or non-integer chunk
\* size derives no chunk size from it and builds no plan, clears no stop flag,
\* starts no worker and sends no job.
C14_InvalidChunkNoEffects ==
    InvalidChunk(call.v)
    => /\ call.cs = 0
       /\ call.chunks = <<>>
       /\ ~call.started
       /\ call.jobs = <<>>

\* C15: split_ranges_by_chunk called with a chunk size below 1 yields no chunk.
C15_BadChunkSizeYieldsNothing == sg_n < 1 => sg_out = <<>>

\* the failures among a thread's renderer exits that were due a report
RECURSIVE DueReports(_)
DueReports(exits) ==
    IF exits = <<>> THEN <<>>
    ELSE (IF Head(exits).code # 0 /\ ~Head(exits).stop
          THEN <<[chunk |-> Head(exits).chunk, code |-> Head(exits).code]>>
          ELSE <<>>) \o DueReports(Tail(exits))

\* C16: the error lines of a local worker are exactly its renderer exits with a
\* non-zero code and the stop flag not set, each carrying the exit code; the
\* chunks are launched in plan order, none twice; and a worker that ends
\* without the stop flag set has launched every chunk of its plan, whatever the
\* exit codes were.
C16_FailureReportedWorkerGoesOn ==
    \A t \in 1..Len(threads) :
        LET th == threads[t] IN
        /\ th.log = DueReports(th.exits)
        /\ \A i \in 1..Len(th.launched) : th.launched[i] = i
        /\ (th.pc = "dead" /\ ~stop_flag) => Len(th.launched) = Len(th.chunks)

\* the first of two chunks failed with exit code 1 and the second was launched
\* all the same
C16_Witness ==
    /\ ~stop_flag
    /\ threads[1].pc = "dead"
    /\ threads[1].log = <<[chunk |-> 1, code |-> 1]>>
    /\ threads[1].launched = <<1, 2>>

\* C17: a render_chunk call that is no longer running has left no renderer
\* subprocess alive.
C17_StopLeavesNoSubprocess ==
    \A t \in 1..Len(threads) :
        \A c \in threads[t].live : threads[t].pc = "proc" /\ threads[t].pos = c

\* C18: a stop_render call changes nothing but the stop flag: no message to a
\* worker, no change to a worker's job, to the uploads waiting or to the output
\* directories; and with the stop flag set a worker's job still goes on
\* rendering and the upload server still accepts a waiting upload.
C18_StopOnlySetsFlag ==
    /\ [](stop_flag
           => /\ up_queue # <<>> => ENABLED UploadServe
              /\ wk_job.pc = "render" => ENABLED (WkSaves \/ WkExits))
    /\ [][stop_flag' # stop_flag
           => UNCHANGED <<file_list, clients, out_dir, current_blend_file, threads,
                          local_worker, sent_jobs, call, up_vars, pure_vars>>]_vars

\* an uploaded frame was written into the output directory with the stop flag set
C18_Witness ==
    /\ stop_flag
    /\ up_last.stopped
    /\ up_last.frame \in out_dir[up_last.dir]

\* C19: a start_render call in which the probe of a scene fails still probes
\* every other scene of the list.
C19_ProbeFailureSkipsOneScene ==
    call.outcome = "probe_failed" => call.probed = call.listed

\* the dependency scan failed: the renderer exited non-zero, or printed no
\* DEPS line
ScanFailed == dp_code # 0 \/ dp_out.sentinel = "none"

\* C20: once start_render has handled a failed dependency scan, an error line
\* carrying the captured output has been logged, and the job header lists no
\* dependency.
C20_ScanFailureLoggedJobsGoOn ==
    (dp_pc \in {"header", "done"} /\ ScanFailed)
    => /\ \E i \in 1..Len(dp_log) : dp_log[i].out = dp_out
       /\ dp_pairs = <<>>
       /\ dp_pc = "done" => dp_deps = <<>>

\* C21: the pairs get_blend_dependencies returns give distinct assets distinct
\* remote relative paths.
C21_DistinctRemotePaths ==
    (dp_pc \in {"handle", "header", "done"} /\ ~dp_result.raised)
    => \A i, j \in 1..Len(dp_result.pairs) :
          i # j => dp_result.pairs[i].remote # dp_result.pairs[j].remote

\* C22: the upload server reaches its "Received frame" line and progress_cb
\* only when it has written exactly the declared number of bytes.
C22_ProgressOnlyForWholeFile ==
    wi_pc = "done" => wi_file.data = wi_sent.data

\* C23: after discover_once has parsed a worker's reply, the entry under the
\* reply's source address holds the hostname and the job port that worker
\* declared.
C23_ReplyParsesAsDeclared ==
    dc_last.ip # None
    => /\ dc_clients[dc_last.ip].known
       /\ dc_clients[dc_last.ip].hostname = dc_last.host
       /\ dc_clients[dc_last.ip].port = dc_last.port

C25_ClosedAndStagedBeforeLaunch ==
    js_proc > 0
    => /\ js_conn = "closed"
       /\ jw_pc = "done"
       /\ \A idx \in 0..Len(jw_hdr.dependencies) : Staged(StagePath(jw_hdr, idx))

\* the renderer launched for a job with two dependencies
C25_Witness ==
    /\ js_proc > 0
    /\ js_pc = "stream"
    /\ Len(jw_hdr.dependencies) >= 2

\* C28: the renderer is launched only when the header parsed and the scene file
\* and every declared dependency arrived whole, that is when the job server has
\* read every byte of the job as its sender declared it.
C28_LaunchOnlyAfterWholeJob ==
    js_proc > 0 => jw_pos = Len(SendJobStream(jw_job.header, jw_job.files))

\* the renderer has exited and the loop of the safety sweep is over
SweepOver == js_pc = "sweep" /\ js_job.todo = <<>>
\* the files send_frame was called with for a Saved: line, and by the sweep
StreamSent == {js_sent[i].file : i \in {j \in 1..Len(js_sent) : js_sent[j].saved # 0}}
SweepSent == SelectSeq(js_sent, LAMBDA u : u.saved = 0)

\* C26: when a job ends behind its renderer's exit, whatever the exit code,
\* send_frame has been called at least once for every file of the job's
\* frames/, and the sweep took the files in ascending order of name.
C26_SweepSubmitsEveryFile ==
    SweepOver
    => /\ \A f \in js_dirs[js_job.id] : \E i \in 1..Len(js_sent) : js_sent[i].file = f
       /\ \A i, j \in 1..Len(SweepSent) : i < j => SweepSent[i].file < SweepSent[j].file

\* a job ended with two files under frames/, one of them never sent for a
\* Saved: line
C26_Witness ==
    /\ SweepOver
    /\ Cardinality(js_dirs[js_job.id]) >= 2
    /\ js_dirs[js_job.id] \ StreamSent # {}

\* C27: every send_frame call made for a Saved: line of frame n is given the
\* file of frame n.
C27_SavedFrameUploaded ==
    \A i \in 1..Len(js_sent) : js_sent[i].saved # 0 => js_sent[i].file = js_sent[i].saved

\* C29: no connection ends a listener thread, and a listener back at accept
\* has closed the connection it served.
C29_ListenersOutliveErrors ==
    /\ js_pc # "dead"
    /\ us_pc # "dead"
    /\ js_pc = "accept" => js_conn \in {"none", "closed"}
    /\ us_pc = "accept" => us_conn.state \in {"none", "closed"}

\* each listener has logged an error for one connection and accepted the next
C29_Witness ==
    /\ js_job.n = 2 /\ js_pc = "stage" /\ js_log = <<"Job error">>
    /\ us_conn.n = 1 /\ us_pc = "accept" /\ us_log = <<"Frame upload error">>

\* C30: at most one renderer subprocess runs, it runs only while the job
\* server reads its output, and the job server reads a connection only when no
\* renderer runs and no sweep is under way.
C30_OneJobAtATime ==
    /\ js_proc <= 1
    /\ js_proc = 1 <=> js_pc = "stream"
    /\ js_conn = "open" => js_pc = "stage" /\ js_job.todo = <<>>

\* a second connection waits while the renderer of the first job runs
C30_Witness ==
    /\ js_pc = "stream" /\ js_proc = 1
    /\ js_wait # <<>>

\* the workers that would be sent a job: the selected entries of the roster
DcActive == {ip \in DcIps : dc_clients[ip].known /\ dc_clients[ip].selected}

\* C40: an entry of the roster is never removed; when discover_once takes a
\* reply no other entry changes and the selected flag of the sender's entry,
\* if it was known, stays as the user last set it, so a reply never adds a
\* known worker to the workers that are sent jobs.
C40_RediscoveryKeepsSelection ==
    [][\A ip \in DcIps :
          dc_clients[ip].known
          => /\ dc_clients'[ip].known
             /\ (dc_msg # NoDatagram /\ dc_msg' = NoDatagram)
                => /\ dc_clients'[ip].selected = dc_clients[ip].selected
                   /\ ip # dc_msg.src => dc_clients'[ip] = dc_clients[ip]
                   /\ (ip \in DcActive') = (ip \in DcActive)]_vars

\* a worker the user deselected has been rediscovered under another hostname
C40_Witness ==
    /\ dc_last.ip # None
    /\ dc_msg = NoDatagram
    /\ dc_clients[dc_last.ip].known
    /\ ~dc_clients[dc_last.ip].selected
    /\ dc_clients[dc_last.ip].hostname = <<"h", "h">>

\* C36: every chunk of the plan of a start_render call was handed on: it is
\* among the chunks of a LocalChunksWorker the call started, or inside the span
\* of a job the call sent.
C36_EveryChunkHandedOn ==
    \A i \in 1..Len(call.chunks) :
       \/ /\ call.started
          /\ \E k \in 1..Len(call.assignments["local"]) :
                call.assignments["local"][k] = call.chunks[i]
       \/ \E j \in 1..Len(call.jobs) :
             /\ call.jobs[j].start <= call.chunks[i][1]
             /\ call.chunks[i][2] <= call.jobs[j].end

\* C33: in the coordinator, a stop requested while the local renderer
\* subprocess is running leads to render_chunk having left that subprocess
\* (terminated or exited) and the local worker thread having ended, whether or
\* not the renderer prints another line.
C33_StopEndsLocalWorker ==
    (stop_flag /\ threads[1].pc = "proc") ~> (threads[1].pc = "dead")
C32_DiscoveryFailureLoggedLoopGoesOn ==
    /\ [](dl_pc # "dead")
    /\ [][((dl_pc = "send" /\ dl_pc' # "recv")
           \/ (dl_pc = "recv" /\ dc_msg # NoDatagram /\ dc_msg' = NoDatagram
               /\ ~Accepted(dc_msg.data)))
          => (dl_log' # dl_log /\ dl_pc' # "dead")]_vars
\* C31: start_render's reading of the roster never fails while discover_once
\* adds or updates workers, and the list of workers it ends with is the set of
\* selected workers the roster held at one instant of the reading.
C31_RosterReadIsAtomic ==
    /\ rs_pc # "raised"
    /\ rs_pc = "done" => {rs_snap[i] : i \in 1..Len(rs_snap)} \in rs_seen
\* C38: every file the upload server writes lies inside the render directory,
\* whatever the header's filename, and every file the worker's job server
\* writes lies inside jobs/<job_id>/, whatever job_id, file and dependency
\* path the header names.
C38_WritesStayInside ==
    \A at \in pt_out.files : Inside(at, pt_out.dir)
\* C34: in the standalone GUI, a RenderWorker whose stop_immediately() has
\* returned starts no renderer subprocess afterwards, in any interleaving of
\* the Tk thread and the worker.
C34_NoSpawnAfterStopReturned ==
    \A i \in 1..Len(gu_worker) : ~gu_worker[i].late

\* C37: in the standalone GUI the automatic shutdown is scheduled at most
\* once, and only with the shutdown option on, for a run whose worker went
\* through its whole file list and during which the stop flag was never set: a
\* run ended by Stop, by closing the window or by a fatal exception of the
\* worker schedules none.
C37_ShutdownOnlyAfterNaturalFinish ==
    /\ [](gu_hist.shutdowns <= 1)
    /\ [][gu_hist'.shutdowns > gu_hist.shutdowns
           => /\ ~gu_hist.flagged
              /\ ~gu_app.closed
              /\ gu_app.shutdown_var
              /\ gu_worker[Len(gu_worker)].f > gu_worker[Len(gu_worker)].files]_vars

\* C39: in the standalone GUI at most one RenderWorker is alive and at most one
\* renderer subprocess runs at any time; Start pressed while a worker is alive
\* changes nothing of the App, the worker or the subprocesses; and
\* current_proc_holder["proc"] is None whenever no render_chunk call is active.
C39_OneWorkerOneRenderer ==
    /\ [](/\ Cardinality(GuAlive) <= 1
          /\ Cardinality(gu_procs) <= 1
          /\ \A i \in 1..Len(gu_worker) :
                gu_worker[i].holder # NoProc => gu_worker[i].pc \in {"loop", "read"})
    /\ [][(gu_hist'.starts # gu_hist.starts /\ AppWorkerAlive)
           => UNCHANGED <<gu_worker, gu_stop, gu_tk, gu_procs, gu_app>>]_vars

\* Start was pressed a second time while the first worker was reading the
\* output of its renderer, which still runs
C39_Witness ==
    /\ gu_hist.starts = 2
    /\ Len(gu_worker) = 1
    /\ gu_worker[1].id = 1
    /\ gu_worker[1].pc = "read"
    /\ gu_worker[1].holder \in gu_procs
====
